---- MODULE Spec2Model ----
(***************************************************************************)
(* A model of the Jira issue creation action: the input validators of      *)
(* src/validators.py, the orchestration of src/main.py and the API wrapper *)
(* of src/jira_client.py.                                                   *)
(*                                                                         *)
(* A Python str is modelled as a sequence of one-character strings, so     *)
(* that strip, upper, split and the regular expressions are computed       *)
(* character by character.  None and "" are both the empty sequence: the   *)
(* code only ever tests these values for truthiness.                       *)
(***************************************************************************)
EXTENDS Integers, Sequences, FiniteSets, TLC

(***************************************************************************)
(* Bounds of the model.                                                    *)
(***************************************************************************)
\* longest attachment list drawn for INPUT_ATTACHMENT_PATHS
MaxAttachments == 2

\* the most slashes at the end of a server URL
MaxTrailingSlashes == 2

(***************************************************************************)
(* Characters and the str methods the validators use.                      *)
(***************************************************************************)
UpperSeq ==
    << "A","B","C","D","E","F","G","H","I","J","K","L","M",
       "N","O","P","Q","R","S","T","U","V","W","X","Y","Z" >>

LowerSeq ==
    << "a","b","c","d","e","f","g","h","i","j","k","l","m",
       "n","o","p","q","r","s","t","u","v","w","x","y","z" >>

UpperChars == { UpperSeq[i] : i \in 1..26 }

LowerChars == { LowerSeq[i] : i \in 1..26 }

DigitChars == { "0","1","2","3","4","5","6","7","8","9" }

\* the characters str.strip() removes and the regex class \s matches
SpaceChars == { " ", "\t", "\n", "\r" }

\* characters with ord(char) < 32 that validate_summary does not exempt are
\* represented by one of them, NUL, written here as the atom "NUL"
ControlChars == { "NUL" }

ToUpper(c) ==
    IF c \in LowerChars
    THEN UpperSeq[CHOOSE i \in 1..26 : LowerSeq[i] = c]
    ELSE c

ToLower(c) ==
    IF c \in UpperChars
    THEN LowerSeq[CHOOSE i \in 1..26 : UpperSeq[i] = c]
    ELSE c

Upper(s) == [ i \in 1..Len(s) |-> ToUpper(s[i]) ]

Lower(s) == [ i \in 1..Len(s) |-> ToLower(s[i]) ]

\* index of the first character of s outside set, Len(s) + 1 if there is none
FirstNotIn(s, set) ==
    LET keep == { i \in 1..Len(s) : s[i] \notin set }
    IN  IF keep = {} THEN Len(s) + 1 ELSE CHOOSE i \in keep : \A j \in keep : i <= j

\* index of the last character of s outside set, 0 if there is none
LastNotIn(s, set) ==
    LET keep == { i \in 1..Len(s) : s[i] \notin set }
    IN  IF keep = {} THEN 0 ELSE CHOOSE i \in keep : \A j \in keep : j <= i

\* index of the first character of s in set, 0 if there is none
FirstIn(s, set) ==
    LET hits == { i \in 1..Len(s) : s[i] \in set }
    IN  IF hits = {} THEN 0 ELSE CHOOSE i \in hits : \A j \in hits : i <= j

\* str.strip(): drop leading and trailing whitespace
Strip(s) == SubSeq(s, FirstNotIn(s, SpaceChars), LastNotIn(s, SpaceChars))

\* fault: only one trailing slash is dropped
RStripOneSlash(s) ==
    IF s # << >> /\ s[Len(s)] = "/" THEN SubSeq(s, 1, Len(s) - 1) ELSE s

\* str.rstrip('/'): drop EVERY trailing slash
RStripSlash(s) == SubSeq(s, 1, LastNotIn(s, { "/" }))

\* str.split(','): the pieces between the commas, empty pieces included
RECURSIVE SplitComma(_)
SplitAtComma(s, k) ==
    IF k = 0 THEN << s >>
    ELSE << SubSeq(s, 1, k - 1) >> \o SplitComma(SubSeq(s, k + 1, Len(s)))

SplitComma(s) == SplitAtComma(s, FirstIn(s, { "," }))

\* [x.strip() for x in value.split(',') if x.strip()]
RECURSIVE StripNonEmpty(_)
StripNonEmpty(parts) ==
    IF parts = << >> THEN << >>
    ELSE (IF Strip(Head(parts)) = << >> THEN << >> ELSE << Strip(Head(parts)) >>)
         \o StripNonEmpty(Tail(parts))

\* the comma-separated text of a list of items
RECURSIVE JoinComma(_)
JoinComma(items) ==
    IF items = << >> THEN << >>
    ELSE IF Len(items) = 1 THEN items[1]
    ELSE items[1] \o << "," >> \o JoinComma(Tail(items))

\* pat occurs in s at position i, ignoring case (pat is lower case)
MatchAtCI(s, i, pat) ==
    /\ i >= 1
    /\ i + Len(pat) - 1 <= Len(s)
    /\ \A j \in 1..Len(pat) : ToLower(s[i + j - 1]) = pat[j]

ContainsCI(s, pat) == \E i \in 1..Len(s) : MatchAtCI(s, i, pat)

Contains(s, pat) ==
    \E i \in 1..Len(s) :
        /\ i + Len(pat) - 1 <= Len(s)
        /\ \A j \in 1..Len(pat) : s[i + j - 1] = pat[j]

(***************************************************************************)
(* InputValidator (src/validators.py).  A validator's outcome is a record: *)
(* ok, the returned value, and the message of the ValidationError.  Each   *)
(* validate_x strips its input and hands it to the checks that follow the  *)
(* strip in the source.                                                     *)
(***************************************************************************)
Ok(v) == [ ok |-> TRUE, val |-> v, err |-> "" ]

Fail(m) == [ ok |-> FALSE, val |-> << >>, err |-> m ]

\* the backquote character, which a TLA+ string cannot hold, is the atom "BQ"
BackQuote == "BQ"

ShellChars == { ";", "&", "|", BackQuote, "$", "(", ")" }

\* r'<script[^>]*>'
PatScript(s) ==
    \E i \in 1..Len(s) :
        /\ MatchAtCI(s, i, << "<","s","c","r","i","p","t" >>)
        /\ \E k \in (i + 7)..Len(s) : s[k] = ">"

\* r'onload\s*=' and r'onerror\s*=': the word, any whitespace, then '='
PatHandler(s, word) ==
    \E i \in 1..Len(s) :
        /\ MatchAtCI(s, i, word)
        /\ \E k \in (i + Len(word))..Len(s) :
              /\ s[k] = "="
              /\ \A j \in (i + Len(word))..(k - 1) : s[j] \in SpaceChars

\* r'\$\([^)]*\)'
PatCmdSubst(s) ==
    \E i \in 1..(Len(s) - 1) :
        /\ s[i] = "$"
        /\ s[i + 1] = "("
        /\ \E k \in (i + 2)..Len(s) : s[k] = ")"

\* the pattern of two backquotes with no backquote between them
PatBacktick(s) ==
    \E i \in 1..Len(s) : \E k \in (i + 1)..Len(s) :
        s[i] = BackQuote /\ s[k] = BackQuote

\* MALICIOUS_PATTERNS: re.search(pattern, content, re.IGNORECASE) succeeds
\* for some pattern of the list
MatchesMalicious(s) ==
    \/ \E i \in 1..Len(s) : s[i] \in ShellChars
    \/ PatScript(s)
    \/ ContainsCI(s, << "j","a","v","a","s","c","r","i","p","t",":" >>)
    \/ ContainsCI(s, << "d","a","t","a",":" >>)
    \/ ContainsCI(s, << "v","b","s","c","r","i","p","t",":" >>)
    \/ PatHandler(s, << "o","n","l","o","a","d" >>)
    \/ PatHandler(s, << "o","n","e","r","r","o","r" >>)
    \/ PatCmdSubst(s)
    \/ PatBacktick(s)

MaliciousMsg == "Potentially malicious content detected"

\* _check_malicious_content(v, field), then return v
CheckMaliciousContent(v) ==
    IF MatchesMalicious(v) THEN Fail(MaliciousMsg) ELSE Ok(v)

(***************************************************************************)
(* urllib.parse.urlparse, as far as validate_url reads its result: the     *)
(* scheme (lower-cased), the netloc, and the ValueError it raises for an   *)
(* unbalanced IPv6 bracket.  Tabs and newlines inside the URL are removed  *)
(* before it is split.                                                      *)
(***************************************************************************)
SchemeChars == UpperChars \cup LowerChars \cup DigitChars \cup { "+", "-", "." }

RECURSIVE RemoveUnsafe(_)
RemoveUnsafe(s) ==
    IF s = << >> THEN << >>
    ELSE (IF Head(s) \in { "\t", "\n", "\r" } THEN << >> ELSE << Head(s) >>)
         \o RemoveUnsafe(Tail(s))

\* u[1..c-1] is a scheme: c is the first colon, the text before it starts
\* with a letter and holds scheme characters only
HasScheme(u, c) ==
    /\ c > 1
    /\ u[1] \in UpperChars \cup LowerChars
    /\ \A j \in 1..(c - 1) : u[j] \in SchemeChars

\* the netloc of what follows the scheme: after '//' up to the first / ? #
NetlocUpTo(rest, stop) ==
    IF Len(rest) >= 2 /\ rest[1] = "/" /\ rest[2] = "/"
    THEN SubSeq(rest, 3, IF stop = 0 THEN Len(rest) ELSE stop + 1)
    ELSE << >>

Netloc(rest) ==
    NetlocUpTo(rest, FirstIn(SubSeq(rest, 3, Len(rest)), { "/", "?", "#" }))

UrlParts(scheme, netloc) ==
    [ scheme |-> scheme,
      netloc |-> netloc,
      valueError |-> ((\E i \in 1..Len(netloc) : netloc[i] = "[")
                      # (\E i \in 1..Len(netloc) : netloc[i] = "]")) ]

UrlSplitAt(u, c) ==
    IF HasScheme(u, c)
    THEN UrlParts(Lower(SubSeq(u, 1, c - 1)), Netloc(SubSeq(u, c + 1, Len(u))))
    ELSE UrlParts(<< >>, Netloc(u))

UrlSplit(u) == UrlSplitAt(u, FirstIn(u, { ":" }))

UrlParse(url) == UrlSplit(RemoveUnsafe(url))

HttpStr == << "h","t","t","p" >>

HttpsStr == << "h","t","t","p","s" >>

\* validate_url after url = url.strip(); a ValidationError raised inside the
\* try block is caught by its except clause and raised again with a prefix
UrlChecks(u, parsed) ==
    IF u = << >> THEN Fail("Jira server URL cannot be empty")
    ELSE IF parsed.valueError
    THEN Fail("Invalid Jira server URL: Invalid IPv6 URL")
    ELSE IF parsed.scheme \notin { HttpStr, HttpsStr }
    THEN Fail("Invalid Jira server URL: Jira server URL must use HTTP or HTTPS protocol")
    ELSE IF parsed.netloc = << >>
    THEN Fail("Invalid Jira server URL: Invalid Jira server URL format - missing hostname")
    ELSE IF MatchesMalicious(u) THEN Fail(MaliciousMsg)
    ELSE Ok(RStripSlash(u))

validate_url(url) == UrlChecks(Strip(url), UrlParse(Strip(url)))

\* re.match(r'^[A-Z][A-Z0-9_]*$', s); s is stripped, so '$' before a final
\* newline cannot apply
IsProjectKey(s) ==
    /\ Len(s) >= 1
    /\ s[1] \in UpperChars
    /\ \A i \in 2..Len(s) : s[i] \in UpperChars \cup DigitChars \cup { "_" }

MaxProjectKeyLen == 10

\* fault: the length of the key is not checked
ProjectKeyChecksNoLength(k) ==
    IF k = << >> THEN Fail("Project key cannot be empty")
    ELSE IF ~IsProjectKey(k)
    THEN Fail("Project key must start with a letter and contain only uppercase letters, numbers, and underscores")
    ELSE Ok(k)

\* validate_project_key after project_key.strip(), on k = the upper-cased key
ProjectKeyChecks(k) ==
    IF k = << >> THEN Fail("Project key cannot be empty")
    ELSE IF ~IsProjectKey(k)
    THEN Fail("Project key must start with a letter and contain only uppercase letters, numbers, and underscores")
    ELSE IF Len(k) > MaxProjectKeyLen
    THEN Fail("Project key cannot exceed 10 characters")
    ELSE Ok(k)

validate_project_key(project_key) == ProjectKeyChecks(Upper(Strip(project_key)))

TaskStr == << "T","a","s","k" >>

BugStr == << "B","u","g" >>

StoryStr == << "S","t","o","r","y" >>

SubTaskStr == << "S","u","b","-","t","a","s","k" >>

EpicStr == << "E","p","i","c" >>

VALID_ISSUE_TYPES == { TaskStr, BugStr, StoryStr, SubTaskStr, EpicStr }

HighestStr == << "H","i","g","h","e","s","t" >>

HighStr == << "H","i","g","h" >>

MediumStr == << "M","e","d","i","u","m" >>

LowStr == << "L","o","w" >>

LowestStr == << "L","o","w","e","s","t" >>

VALID_PRIORITIES == { HighestStr, HighStr, MediumStr, LowStr, LowestStr }

IssueTypeChecks(t) ==
    IF t = << >> THEN Fail("Issue type cannot be empty")
    ELSE IF t \notin VALID_ISSUE_TYPES THEN Fail("Issue type is not supported")
    ELSE Ok(t)

validate_issue_type(issue_type) == IssueTypeChecks(Strip(issue_type))

MaxSummaryLen == 255

SummaryChecks(t) ==
    IF t = << >> THEN Fail("Issue summary cannot be empty")
    ELSE IF Len(t) > MaxSummaryLen
    THEN Fail("Issue summary cannot exceed 255 characters")
    ELSE IF \E i \in 1..Len(t) : t[i] \in ControlChars
    THEN Fail("Issue summary contains invalid control characters")
    ELSE CheckMaliciousContent(t)

validate_summary(summary) == SummaryChecks(Strip(summary))

MaxDescriptionLen == 32767

DescriptionChecks(t) ==
    IF t = << >> THEN Fail("Issue description cannot be empty")
    ELSE IF Len(t) > MaxDescriptionLen
    THEN Fail("Issue description cannot exceed 32767 characters")
    ELSE CheckMaliciousContent(t)

validate_description(description) == DescriptionChecks(Strip(description))

PriorityChecks(t) ==
    IF t = << >> THEN Fail("Issue priority cannot be empty")
    ELSE IF t \notin VALID_PRIORITIES THEN Fail("Priority is not supported")
    ELSE Ok(t)

validate_priority(priority) == PriorityChecks(Strip(priority))

\* re.match(r'^[a-zA-Z0-9@._-]+$', s)
UsernameChars ==
    UpperChars \cup LowerChars \cup DigitChars \cup { "@", ".", "_", "-" }

MaxUsernameLen == 254

UsernameChecks(t) ==
    IF t = << >> THEN Fail("Username cannot be empty")
    ELSE IF \E i \in 1..Len(t) : t[i] \notin UsernameChars
    THEN Fail("Username contains invalid characters")
    ELSE IF Len(t) > MaxUsernameLen
    THEN Fail("Username cannot exceed 254 characters")
    ELSE CheckMaliciousContent(t)

validate_username(username) == UsernameChecks(Strip(username))

MinTokenLen == 20

PlaceholderTokens ==
    { << "p","a","s","s","w","o","r","d" >>, << "t","o","k","e","n" >>,
      << "s","e","c","r","e","t" >>, << "k","e","y" >> }

\* fault: the placeholder test runs before the length test
TokenChecksPlaceholderFirst(t) ==
    IF t = << >> THEN Fail("API token cannot be empty")
    ELSE IF Lower(t) \in PlaceholderTokens
    THEN Fail("API token appears to be a placeholder")
    ELSE IF Len(t) < MinTokenLen
    THEN Fail("API token appears to be too short (minimum 20 characters)")
    ELSE Ok(t)

\* fault: the security rule is run on the token as well
TokenChecksWithSecurityRule(t) ==
    IF t = << >> THEN Fail("API token cannot be empty")
    ELSE IF Len(t) < MinTokenLen
    THEN Fail("API token appears to be too short (minimum 20 characters)")
    ELSE IF Lower(t) \in PlaceholderTokens
    THEN Fail("API token appears to be a placeholder")
    ELSE CheckMaliciousContent(t)

\* fault: the length test is off by one
TokenChecksOffByOne(t) ==
    IF t = << >> THEN Fail("API token cannot be empty")
    ELSE IF Len(t) < MinTokenLen - 1
    THEN Fail("API token appears to be too short (minimum 20 characters)")
    ELSE IF Lower(t) \in PlaceholderTokens
    THEN Fail("API token appears to be a placeholder")
    ELSE Ok(t)

TokenChecks(t) ==
    IF t = << >> THEN Fail("API token cannot be empty")
    ELSE IF Len(t) < MinTokenLen
    THEN Fail("API token appears to be too short (minimum 20 characters)")
    ELSE IF Lower(t) \in PlaceholderTokens
    THEN Fail("API token appears to be a placeholder")
    ELSE Ok(t)

validate_token(token) == TokenChecks(Strip(token))

\* re.match(r'^[A-Z][A-Z0-9_]*-\d+$', s)
IsIssueKey(s) ==
    \E k \in 1..Len(s) :
        /\ s[k] = "-"
        /\ IsProjectKey(SubSeq(s, 1, k - 1))
        /\ k < Len(s)
        /\ \A i \in (k + 1)..Len(s) : s[i] \in DigitChars

\* fault: the format of the parent key is not checked
ParentKeyUnchecked(k) == Ok(k)

\* validate_parent_issue_key on k = the stripped, upper-cased key: None (the
\* empty sequence) for an empty or blank key
ParentKeyChecks(k) ==
    IF k = << >> THEN Ok(<< >>)
    ELSE IF ~IsIssueKey(k)
    THEN Fail("Parent issue key must be in format PROJECT-123 (e.g., PROJ-123)")
    ELSE Ok(k)

validate_parent_issue_key(parent_key) == ParentKeyChecks(Upper(Strip(parent_key)))

\* re.match(r'^[a-zA-Z0-9_-]+$', label)
LabelChars == UpperChars \cup LowerChars \cup DigitChars \cup { "_", "-" }

MaxLabelLen == 255

\* the checks of one label, in the order of the loop body: "" when it passes
CheckLabel(label) ==
    IF Len(label) > MaxLabelLen THEN "Label cannot exceed 255 characters"
    ELSE IF \E i \in 1..Len(label) : label[i] = " "
    THEN "Label cannot contain spaces"
    ELSE IF \E i \in 1..Len(label) : label[i] \notin LabelChars
    THEN "Label contains invalid characters"
    ELSE IF MatchesMalicious(label) THEN MaliciousMsg
    ELSE ""

\* the loop over a list: the message of the first item whose check fails
FirstError(errors) ==
    IF FirstNotIn(errors, { "" }) > Len(errors) THEN ""
    ELSE errors[FirstNotIn(errors, { "" })]

ListResult(items, errors) ==
    IF FirstError(errors) # "" THEN Fail(FirstError(errors)) ELSE Ok(items)

\* fault: a label that repeats an earlier one is dropped
RECURSIVE DropRepeats(_)
DropRepeats(l) ==
    IF l = << >> THEN << >>
    ELSE IF \E i \in 1..(Len(l) - 1) : l[i] = l[Len(l)]
    THEN DropRepeats(SubSeq(l, 1, Len(l) - 1))
    ELSE Append(DropRepeats(SubSeq(l, 1, Len(l) - 1)), l[Len(l)])

LabelListChecksNoRepeats(label_list) ==
    ListResult(DropRepeats(label_list),
               [ i \in 1..Len(label_list) |-> CheckLabel(label_list[i]) ])

LabelListChecks(label_list) ==
    ListResult(label_list, [ i \in 1..Len(label_list) |-> CheckLabel(label_list[i]) ])

validate_labels(labels) == LabelListChecks(StripNonEmpty(SplitComma(labels)))

(***************************************************************************)
(* The filesystem as validate_attachment_paths sees it: fs maps a path to  *)
(* "ok", "missing", "dir", "unreadable", "big" (over 10 MiB) or "gone"     *)
(* (os.path.getsize raises OSError).                                       *)
(***************************************************************************)
\* fault: a path that begins with "/" is not refused
CheckPathAbsoluteAllowed(path, f) ==
    IF Contains(path, << ".", "." >>)
    THEN "Invalid file path - potential security risk"
    ELSE IF f[path] = "missing" THEN "Attachment file not found"
    ELSE IF f[path] = "dir" THEN "Path is not a file"
    ELSE IF f[path] = "unreadable" THEN "File is not readable"
    ELSE IF f[path] = "big" THEN "File is too large (max 10MB)"
    ELSE IF f[path] = "gone" THEN "Cannot access file"
    ELSE ""

CheckPath(path, f) ==
    IF Contains(path, << ".", "." >>) \/ path[1] = "/"
    THEN "Invalid file path - potential security risk"
    ELSE IF f[path] = "missing" THEN "Attachment file not found"
    ELSE IF f[path] = "dir" THEN "Path is not a file"
    ELSE IF f[path] = "unreadable" THEN "File is not readable"
    ELSE IF f[path] = "big" THEN "File is too large (max 10MB)"
    ELSE IF f[path] = "gone" THEN "Cannot access file"
    ELSE ""

PathListChecks(path_list, f) ==
    ListResult(path_list, [ i \in 1..Len(path_list) |-> CheckPath(path_list[i], f) ])

validate_attachment_paths(paths, f) ==
    PathListChecks(StripNonEmpty(SplitComma(paths)), f)

(***************************************************************************)
(* validate_and_prepare_config (src/main.py) over the raw inputs e of      *)
(* EnvironmentHelper.get_all_inputs and the filesystem f.                  *)
(***************************************************************************)
RequiredInputs ==
    << "jira_server", "jira_username", "jira_api_token", "project_key",
       "issue_type", "issue_summary", "issue_description", "issue_priority" >>

\* get_required_env raises ValueError for an unset or empty variable
get_all_inputs_fails(e) ==
    \E i \in 1..Len(RequiredInputs) : e[RequiredInputs[i]] = << >>

\* the variables get_all_inputs reads with get_required_env, in its order
RequiredEnvNames ==
    << "INPUT_JIRA_SERVER", "INPUT_JIRA_USERNAME", "INPUT_JIRA_API_TOKEN",
       "INPUT_PROJECT_KEY", "INPUT_ISSUE_TYPE", "INPUT_ISSUE_SUMMARY",
       "INPUT_ISSUE_DESCRIPTION", "INPUT_ISSUE_PRIORITY" >>

\* the first required input that is unset or empty (there is one)
FirstMissing(e) ==
    CHOOSE i \in 1..Len(RequiredInputs) :
        /\ e[RequiredInputs[i]] = << >>
        /\ \A j \in 1..(i - 1) : e[RequiredInputs[j]] # << >>

\* the ValueError of get_required_env for the i-th variable, as re-raised by
\* validate_and_prepare_config
EnvironmentError(i) ==
    "Environment variable error: Required environment variable "
        \o RequiredEnvNames[i] \o " is not set"

SubTaskLower == << "s","u","b","-","t","a","s","k" >>

\* fault: an assignee of blanks only is taken as no assignee
ValidatorResultsBlankAssigneeAbsent(e, f) ==
    << validate_url(e.jira_server),
       validate_username(e.jira_username),
       validate_token(e.jira_api_token),
       validate_project_key(e.project_key),
       validate_issue_type(e.issue_type),
       validate_summary(e.issue_summary),
       validate_description(e.issue_description),
       validate_priority(e.issue_priority),
       validate_parent_issue_key(e.parent_issue_key),
       validate_labels(e.issue_labels),
       validate_attachment_paths(e.attachment_paths, f),
       IF Strip(e.assignee) = << >> THEN Ok(<< >>) ELSE validate_username(e.assignee) >>

\* the validators in the order main calls them; the assignee is validated
\* after the dictionary is built, and only when it is non-empty
ValidatorResults(e, f) ==
    << validate_url(e.jira_server),
       validate_username(e.jira_username),
       validate_token(e.jira_api_token),
       validate_project_key(e.project_key),
       validate_issue_type(e.issue_type),
       validate_summary(e.issue_summary),
       validate_description(e.issue_description),
       validate_priority(e.issue_priority),
       validate_parent_issue_key(e.parent_issue_key),
       validate_labels(e.issue_labels),
       validate_attachment_paths(e.attachment_paths, f),
       IF e.assignee = << >> THEN Ok(<< >>) ELSE validate_username(e.assignee) >>

\* fault: the validators all run and the last failure is the one reported
LastFailed(r) ==
    LET bad == { i \in 1..Len(r) : ~r[i].ok }
    IN  IF bad = {} THEN 0 ELSE CHOOSE i \in bad : \A j \in bad : i >= j

\* index of the first validator that raised, 0 if none did
FirstFailed(r) ==
    LET bad == { i \in 1..Len(r) : ~r[i].ok }
    IN  IF bad = {} THEN 0 ELSE CHOOSE i \in bad : \A j \in bad : i <= j

VisibleChars == 4

MaskLen == 8

\* mask_sensitive_data: stars, then the last four characters; eight stars for
\* a value of four characters or fewer
mask_sensitive_data(data) ==
    IF Len(data) <= VisibleChars THEN [ i \in 1..MaskLen |-> "*" ]
    ELSE [ i \in 1..(Len(data) - VisibleChars) |-> "*" ]
         \o SubSeq(data, Len(data) - VisibleChars + 1, Len(data))

\* main lines 74-75: the copy of the configuration that is logged
LogConfig(c) == [ c EXCEPT !.jira_api_token = mask_sensitive_data(@) ]

\* fault: the token is masked in the configuration itself, not in a copy
PrepareConfigMaskedInPlace(e, r) ==
    IF get_all_inputs_fails(e)
    THEN Fail(EnvironmentError(FirstMissing(e)))
    ELSE IF FirstFailed(r) # 0 THEN r[FirstFailed(r)]
    ELSE IF Lower(r[5].val) = SubTaskLower /\ r[9].val = << >>
    THEN Fail("Parent issue key is required for Sub-task type")
    ELSE Ok(LogConfig([ jira_server |-> r[1].val,
                        jira_username |-> r[2].val,
                        jira_api_token |-> r[3].val,
                        project_key |-> r[4].val,
                        issue_type |-> r[5].val,
                        issue_summary |-> r[6].val,
                        issue_description |-> r[7].val,
                        issue_priority |-> r[8].val,
                        parent_issue_key |-> r[9].val,
                        labels |-> r[10].val,
                        attachment_paths |-> r[11].val,
                        assignee |-> r[12].val ]))

\* fault: the sub-task cross-check is left out
PrepareConfigNoParentCheck(e, r) ==
    IF get_all_inputs_fails(e)
    THEN Fail(EnvironmentError(FirstMissing(e)))
    ELSE IF FirstFailed(r) # 0 THEN r[FirstFailed(r)]
    ELSE Ok([ jira_server |-> r[1].val,
              jira_username |-> r[2].val,
              jira_api_token |-> r[3].val,
              project_key |-> r[4].val,
              issue_type |-> r[5].val,
              issue_summary |-> r[6].val,
              issue_description |-> r[7].val,
              issue_priority |-> r[8].val,
              parent_issue_key |-> r[9].val,
              labels |-> r[10].val,
              attachment_paths |-> r[11].val,
              assignee |-> r[12].val ])

PrepareConfig(e, r) ==
    IF get_all_inputs_fails(e)
    THEN Fail(EnvironmentError(FirstMissing(e)))
    ELSE IF FirstFailed(r) # 0 THEN r[FirstFailed(r)]
    ELSE IF Lower(r[5].val) = SubTaskLower /\ r[9].val = << >>
    THEN Fail("Parent issue key is required for Sub-task type")
    ELSE Ok([ jira_server |-> r[1].val,
              jira_username |-> r[2].val,
              jira_api_token |-> r[3].val,
              project_key |-> r[4].val,
              issue_type |-> r[5].val,
              issue_summary |-> r[6].val,
              issue_description |-> r[7].val,
              issue_priority |-> r[8].val,
              parent_issue_key |-> r[9].val,
              labels |-> r[10].val,
              attachment_paths |-> r[11].val,
              assignee |-> r[12].val ])

validate_and_prepare_config(e, f) == PrepareConfig(e, ValidatorResults(e, f))

(***************************************************************************)
(* JiraClient (src/jira_client.py): the classification of remote errors.   *)
(* A JIRAError carries a status code; status 0 stands for status_code None.*)
(***************************************************************************)
StatusCodes == { 0, 400, 401, 403, 404, 409, 422, 429, 500, 501, 502, 503, 504 }

StatusText(status) == IF status = 0 THEN "None" ELSE ToString(status)

Error(cls, msg, details) == [ cls |-> cls, msg |-> msg, details |-> details ]

NoError == Error("None", "", "")

\* fault: every 5xx status is given the message of status 500
ConnectionErrorMessageAny5xx(status) ==
    CASE status = 401 -> "Authentication failed. Please check your username and API token."
      [] status = 403 -> "Access forbidden. Your account may not have permission to access this Jira instance."
      [] status = 404 -> "Jira server not found. Please verify the server URL."
      [] status = 429 -> "Rate limit exceeded. Please try again later."
      [] status \in 500..599 -> "Jira server internal error. Please try again later or contact your administrator."
      [] OTHER -> "Connection to Jira failed"

ConnectionErrorMessage(status) ==
    CASE status = 401 -> "Authentication failed. Please check your username and API token."
      [] status = 403 -> "Access forbidden. Your account may not have permission to access this Jira instance."
      [] status = 404 -> "Jira server not found. Please verify the server URL."
      [] status = 429 -> "Rate limit exceeded. Please try again later."
      [] status = 500 -> "Jira server internal error. Please try again later or contact your administrator."
      [] status = 502 -> "Bad gateway. There may be network connectivity issues."
      [] status = 503 -> "Jira service unavailable. The server may be under maintenance."
      [] status = 504 -> "Gateway timeout. The request took too long to complete."
      [] OTHER -> "Connection to Jira failed"

_handle_connection_error(status) ==
    Error("JiraConnectionError", ConnectionErrorMessage(status),
          "HTTP " \o StatusText(status))

\* fault: status 409 is missing from the table
OperationErrorMessageNo409(status) ==
    CASE status = 400 -> "Bad request for create issue. Please check your input parameters."
      [] status = 401 -> "Authentication failed during create issue."
      [] status = 403 -> "Permission denied for create issue. Contact your Jira administrator."
      [] status = 404 -> "Resource not found for create issue. Check project key, issue type, or parent issue."
      [] status = 422 -> "Invalid input for create issue. Check required fields and field types."
      [] status = 429 -> "Rate limit exceeded during create issue. Please try again later."
      [] OTHER -> "Operation 'create issue' failed"

OperationErrorMessage(status) ==
    CASE status = 400 -> "Bad request for create issue. Please check your input parameters."
      [] status = 401 -> "Authentication failed during create issue."
      [] status = 403 -> "Permission denied for create issue. Contact your Jira administrator."
      [] status = 404 -> "Resource not found for create issue. Check project key, issue type, or parent issue."
      [] status = 409 -> "Conflict occurred during create issue. The resource may already exist."
      [] status = 422 -> "Invalid input for create issue. Check required fields and field types."
      [] status = 429 -> "Rate limit exceeded during create issue. Please try again later."
      [] OTHER -> "Operation 'create issue' failed"

_handle_operation_error(status) ==
    Error("JiraOperationError", OperationErrorMessage(status),
          "HTTP " \o StatusText(status))

\* what a remote call can do: return, raise JIRAError, raise something else
RemoteOutcomes ==
    { [ kind |-> "ok", status |-> 0 ], [ kind |-> "Exception", status |-> 0 ] }
    \cup [ kind : { "JIRAError" }, status : StatusCodes ]

OkOutcome == [ kind |-> "ok", status |-> 0 ]

\* a call that has not returned yet
Pending == [ kind |-> "pending", status |-> 0 ]

\* the outcomes _validate_assignee tells apart: success, JIRAError with
\* status 404, JIRAError with another status, any other exception
UserOutcomes ==
    { OkOutcome, [ kind |-> "Exception", status |-> 0 ],
      [ kind |-> "JIRAError", status |-> 404 ],
      [ kind |-> "JIRAError", status |-> 403 ] }

\* the outcomes the attachment loop tells apart: success, JIRAError, any
\* other exception
UploadOutcomes ==
    { OkOutcome, [ kind |-> "Exception", status |-> 0 ],
      [ kind |-> "JIRAError", status |-> 500 ] }

\* fault: __init__ has no except Exception clause
ConnectErrorUnclassified(o) ==
    IF o.kind = "JIRAError" THEN _handle_connection_error(o.status)
    ELSE Error("Exception", "connection refused", "")

\* the except clauses of JiraClient.__init__
ConnectError(o) ==
    IF o.kind = "JIRAError" THEN _handle_connection_error(o.status)
    ELSE Error("JiraConnectionError", "Unexpected error connecting to Jira", "")

\* fault: a failed lookup is taken for a valid assignee
AssigneeAssumedValid(o) == TRUE

\* _validate_assignee: True when jira.user returns, False (and a warning)
\* for every JIRAError and every other exception
_validate_assignee(o) == o.kind = "ok"

\* fault: the parent lookup is best-effort too
ParentLookupBestEffort(o) == NoError

\* _validate_parent_issue: the JiraOperationError it raises, NoError if none
_validate_parent_issue(o) ==
    IF o.kind = "ok" THEN NoError
    ELSE IF o.kind = "JIRAError" /\ o.status = 404
    THEN Error("JiraOperationError", "Parent issue not found", "")
    ELSE IF o.kind = "JIRAError"
    THEN Error("JiraOperationError", "Cannot access parent issue", "")
    ELSE Error("JiraOperationError", "Error validating parent issue", "")

\* the except clauses of create_issue: a JIRAError is classified by status,
\* any other exception (a JiraOperationError of a helper included) is wrapped
CreateIssueExcept(kind, status, msg) ==
    IF kind = "JIRAError" THEN _handle_operation_error(status)
    ELSE Error("JiraOperationError", "Unexpected error creating issue: " \o msg, "")

\* fault: the parent field is added for every issue type
PrepareIssueDataParentAnyType(c, assigneeValid) ==
    LET keys == { "project", "issuetype", "summary", "description", "priority" }
                \cup (IF c.labels # << >> THEN { "labels" } ELSE {})
                \cup (IF c.parent_issue_key # << >> THEN { "parent" } ELSE {})
                \cup (IF c.assignee # << >> /\ assigneeValid
                      THEN { "assignee" } ELSE {})
    IN  [ k \in keys |->
            CASE k = "project" -> c.project_key
              [] k = "issuetype" -> c.issue_type
              [] k = "summary" -> c.issue_summary
              [] k = "description" -> c.issue_description
              [] k = "priority" -> c.issue_priority
              [] k = "labels" -> c.labels
              [] k = "parent" -> c.parent_issue_key
              [] k = "assignee" -> c.assignee ]

\* _prepare_issue_data: the fields dictionary, nested {'key': x} and
\* {'name': x} written as x
_prepare_issue_data(c, assigneeValid) ==
    LET keys == { "project", "issuetype", "summary", "description", "priority" }
                \cup (IF c.labels # << >> THEN { "labels" } ELSE {})
                \cup (IF c.parent_issue_key # << >> /\ Lower(c.issue_type) = SubTaskLower
                      THEN { "parent" } ELSE {})
                \cup (IF c.assignee # << >> /\ assigneeValid
                      THEN { "assignee" } ELSE {})
    IN  [ k \in keys |->
            CASE k = "project" -> c.project_key
              [] k = "issuetype" -> c.issue_type
              [] k = "summary" -> c.issue_summary
              [] k = "description" -> c.issue_description
              [] k = "priority" -> c.issue_priority
              [] k = "labels" -> c.labels
              [] k = "parent" -> c.parent_issue_key
              [] k = "assignee" -> c.assignee ]

LogDescriptionLen == 100

\* _sanitize_for_log: a copy of the payload with a long description cut to
\* its first 100 characters and "..."
_sanitize_for_log(data) ==
    IF Len(data.description) > LogDescriptionLen
    THEN [ data EXCEPT !.description =
              SubSeq(@, 1, LogDescriptionLen) \o << ".", ".", "." >> ]
    ELSE data

(***************************************************************************)
(* main (src/main.py): the except clauses, each ending in sys.exit(1).     *)
(***************************************************************************)
JiraActionErrorClasses ==
    { "JiraActionError", "ValidationError", "JiraConnectionError",
      "JiraOperationError", "ConfigurationError", "AttachmentError" }

\* the except clause that catches an exception of class cls
MainHandler(cls) ==
    IF cls = "ValidationError" THEN "except ValidationError"
    ELSE IF cls = "JiraConnectionError" THEN "except JiraConnectionError"
    ELSE IF cls = "JiraOperationError" THEN "except JiraOperationError"
    ELSE IF cls \in JiraActionErrorClasses THEN "except JiraActionError"
    ELSE "except Exception"

\* fault: a connection failure gets an exit code of its own
ExitCodeOfHandler(handler) ==
    IF handler = "except JiraConnectionError" THEN 2 ELSE 1

\* the argument of sys.exit in that clause
HandlerExitCode(handler) == 1

(***************************************************************************)
(* The inputs of one run: the INPUT_* environment variables and the files  *)
(* the attachment paths name.                                               *)
(***************************************************************************)
ServerInputs ==
    { << "h","t","t","p","s",":","/","/","x",".","c","o","m","/" >>,
      << "f","t","p",":","/","/","x",".","c","o","m" >> }

UsernameInputs == { << "b","o","t","@","x",".","c","o","m" >> }

TokenInputs == { [ i \in 1..20 |-> "t" ], [ i \in 1..19 |-> "t" ], << >> }

ProjectKeyInputs == { << "p","r","o","j" >> }

IssueTypeInputs == { TaskStr, SubTaskStr, << "t","a","s","k" >> }

SummaryInputs == { << " ","F","i","x"," ","i","t"," " >> }

DescriptionInputs == { << "I","t"," ","f","a","i","l","s","." >> }

PriorityInputs == { HighStr }

ParentKeyInputs == { << >>, << "p","r","o","j","-","1","2" >>, << "1","2" >> }

AssigneeInputs == { << >>, << "a","l","i","c","e" >>, << " " >> }

LabelInputs == { << >>, << "b","u","g",","," ","f","r","o","n","t","e","n","d" >> }

PathA == << "a",".","t","x","t" >>

PathB == << "o","u","t","/","b",".","l","o","g" >>

PathUp == << ".",".","/","c" >>

PathPool == { PathA, PathB, PathUp }

\* every comma-separated list of at most MaxAttachments paths of the pool
AttachmentInputs ==
    { JoinComma(l) : l \in UNION { [ 1..n -> PathPool ] : n \in 0..MaxAttachments } }

RawInputs ==
    [ jira_server : ServerInputs,
      jira_username : UsernameInputs,
      jira_api_token : TokenInputs,
      project_key : ProjectKeyInputs,
      issue_type : IssueTypeInputs,
      issue_summary : SummaryInputs,
      issue_description : DescriptionInputs,
      issue_priority : PriorityInputs,
      parent_issue_key : ParentKeyInputs,
      assignee : AssigneeInputs,
      issue_labels : LabelInputs,
      attachment_paths : AttachmentInputs ]

\* a file whose name holds a shell character
PathSemi == << "a",";","b",".","t","x","t" >>

\* an absolute path
PathAbs == << "/","e","t","c","/","x" >>

Files == PathPool \cup { PathSemi, PathAbs }

\* every file is there, or only PathA and PathSemi are
FsStates ==
    { [ p \in Files |-> "ok" ],
      [ p \in Files |-> IF p \in { PathB, PathUp, PathAbs } THEN "missing" ELSE "ok" ] }

(***************************************************************************)
(* Inputs that exercise one validator at a time: a valid set of inputs     *)
(* with one field replaced.                                                 *)
(***************************************************************************)
BaseInputs ==
    [ jira_server |-> << "h","t","t","p","s",":","/","/","x",".","c","o","m" >>,
      jira_username |-> << "b","o","t","@","x",".","c","o","m" >>,
      jira_api_token |-> [ i \in 1..MinTokenLen |-> "t" ],
      project_key |-> << "p","r","o","j" >>,
      issue_type |-> TaskStr,
      issue_summary |-> << "F","i","x" >>,
      issue_description |-> << "I","t"," ","f","a","i","l","s","." >>,
      issue_priority |-> HighStr,
      parent_issue_key |-> << >>,
      assignee |-> << >>,
      issue_labels |-> << >>,
      attachment_paths |-> << >> ]

\* texts with the content the security patterns are about
DangerousTexts ==
    { << "a",";","b" >>,
      << "a",BackQuote,"b" >>,
      << "a",BackQuote,"b",BackQuote >>,
      << "$","(","x",")" >>,
      << "<","s","c","r","i","p","t" >>,
      << "<","S","c","r","i","p","t"," ","x",">" >>,
      << "j","a","v","a","s","c","r","i","p","t",":","x" >>,
      << "o","n","l","o","a","d"," ","=","x" >> }

XComUrl == << "h","t","t","p","s",":","/","/","x",".","c","o","m" >>

\* the same URL with 0..MaxTrailingSlashes slashes after it
SlashUrls ==
    { XComUrl \o [ i \in 1..n |-> "/" ] : n \in 0..MaxTrailingSlashes }

UrlProbes ==
    SlashUrls
    \cup { XComUrl \o << "/" >> \o d : d \in DangerousTexts }
    \cup { << "a",";","b" >>,
           << "h","t","t","p",":","/","/","x","/"," ","/" >>,
           << "h","t","t","p",":","/","/","x","/","\t","/" >>,
           << " ","H","T","T","P",":","/","/","x",".","c","o","m","/","a","/"," " >>,
           << "h","t","t","p","s",":","/","/","/" >> }

\* tokens of every length up to one more than the minimum, and tokens of
\* the minimum length that hold dangerous content or blanks
TokenProbes ==
    { [ i \in 1..n |-> "t" ] : n \in 1..(MinTokenLen + 1) }
    \cup { d \o [ i \in 1..(MinTokenLen - Len(d)) |-> "t" ] : d \in DangerousTexts }
    \cup { << " " >> \o [ i \in 1..(MinTokenLen - 1) |-> "t" ] \o << " " >>,
           << " " >> \o [ i \in 1..MinTokenLen |-> "t" ] \o << "\n" >>,
           << "K","e","y" >>, << "P","A","S","S","W","O","R","D" >>,
           << "t","o","k","e","n" >>, << " ","S","e","c","r","e","t"," " >> }

LabelProbes ==
    DangerousTexts
    \cup { << "o","k",",","a",";","b" >>, << "o","k",","," ","o","n","l","o","a","d" >> }
    \cup { << "a",","," ","b"," ",",",",","c" >>, << "a",",","b",",","a" >>,
           << " "," " >>, << "," >>, << ","," ","," >>, << "a"," ","b",",","c" >> }

\* keys of every length up to one over the limit, keys the pattern rejects,
\* a lower-case key and a key padded with blanks
ProjectKeyProbes ==
    { [ i \in 1..n |-> "A" ] : n \in 1..(MaxProjectKeyLen + 1) }
    \cup { << "A","_","1" >>, << "1","A","B" >>, << "A","-","B" >>, << "a","B","_","2" >>,
           << "_","A" >>,
           << " "," " >> \o [ i \in 1..(MaxProjectKeyLen - 1) |-> "A" ],
           << " " >> \o [ i \in 1..(MaxProjectKeyLen + 1) |-> "A" ] }

\* a description longer than what is logged of it
LongDescription == [ i \in 1..(LogDescriptionLen + 1) |-> "d" ]

\* lists that hold an absolute path or a path with ".."
PathProbes ==
    { PathSemi, PathAbs, << " " >> \o PathAbs,
      JoinComma(<< PathA, PathAbs >>), JoinComma(<< PathA, << " " >> \o PathUp >>),
      << "a",".",".","b" >> }

ProbeInputs ==
    { [ BaseInputs EXCEPT !.jira_server = u ] : u \in UrlProbes }
    \cup { [ BaseInputs EXCEPT !.jira_api_token = t ] : t \in TokenProbes }
    \cup { [ BaseInputs EXCEPT !.issue_summary = d ] : d \in DangerousTexts }
    \cup { [ BaseInputs EXCEPT !.issue_description = d ] :
              d \in DangerousTexts \cup { LongDescription } }
    \cup { [ BaseInputs EXCEPT !.jira_username = d ] : d \in DangerousTexts }
    \cup { [ BaseInputs EXCEPT !.assignee = d ] : d \in DangerousTexts }
    \cup { [ BaseInputs EXCEPT !.issue_labels = l ] : l \in LabelProbes }
    \cup { [ BaseInputs EXCEPT !.project_key = d ] : d \in DangerousTexts \cup ProjectKeyProbes }
    \cup { [ BaseInputs EXCEPT !.issue_type = d ] : d \in DangerousTexts }
    \cup { [ BaseInputs EXCEPT !.issue_priority = d ] : d \in DangerousTexts }
    \cup { [ BaseInputs EXCEPT !.attachment_paths = l ] : l \in PathProbes }
    \cup { [ BaseInputs EXCEPT !.parent_issue_key = << " ", " " >> ],
           [ BaseInputs EXCEPT !.assignee = << " ", "\t" >> ] }

\* the key the remote service gives the created issue
IssueKeys == { << "P","R","O","J","-","7" >> }

EmptyConfig ==
    [ jira_server |-> << >>, jira_username |-> << >>, jira_api_token |-> << >>,
      project_key |-> << >>, issue_type |-> << >>, issue_summary |-> << >>,
      issue_description |-> << >>, issue_priority |-> << >>,
      parent_issue_key |-> << >>, assignee |-> << >>, labels |-> << >>,
      attachment_paths |-> << >> ]

(***************************************************************************)
(* The state of one run of main.                                           *)
(***************************************************************************)
VARIABLES
    environ,                 \* the raw INPUT_* values
    fs,                      \* the files at validation time
    pc,                      \* where the run is
    config,                  \* the validated configuration
    calls,                   \* the calls made to the jira library, in order
    assignee_valid,          \* create_issue's local
    submitted,               \* the payloads passed to jira.create_issue
    issue_key,               \* issue.key of the created issue
    idx,                     \* position of the attachment loop
    attempts,                \* each finished loop iteration: the path, how it
                             \* ended, whether jira.add_attachment was called
    successful_attachments,  \* _add_attachments' counter
    failed_attachments,      \* _add_attachments' failure list
    log,                     \* how many warning and error lines were logged
    exc,                     \* the exception main caught
    handler,                 \* the except clause of main that caught it
    exitCode,                \* the process exit code, -1 while running
    outputFile,              \* lines appended to $GITHUB_OUTPUT
    summaryFile              \* lines appended to $GITHUB_STEP_SUMMARY

vars ==
    << environ, fs, pc, config, calls, assignee_valid, submitted, issue_key,
       idx, attempts, successful_attachments, failed_attachments, log, exc,
       handler, exitCode, outputFile, summaryFile >>

Init ==
    /\ environ \in RawInputs \cup ProbeInputs
    /\ fs \in FsStates
    /\ pc = "validate"
    /\ config = EmptyConfig
    /\ calls = << >>
    /\ assignee_valid = FALSE
    /\ submitted = << >>
    /\ issue_key = << >>
    /\ idx = 1
    /\ attempts = << >>
    /\ successful_attachments = 0
    /\ failed_attachments = << >>
    /\ log = [ warnings |-> 0, errors |-> 0 ]
    /\ exc = NoError
    /\ handler = ""
    /\ exitCode = -1
    /\ outputFile = << >>
    /\ summaryFile = << >>

\* one call to the jira library and how it ended
Call(op, arg, result) == [ op |-> op, arg |-> arg, result |-> result ]

Warn(l) == [ l EXCEPT !.warnings = @ + 1 ]

Err(l) == [ l EXCEPT !.errors = @ + 1 ]

\* an exception reaches main's except clauses: two logger.error lines, then
\* sys.exit(1)
MainExcept(e) ==
    /\ exc' = e
    /\ handler' = MainHandler(e.cls)
    /\ log' = Err(Err(log))
    /\ exitCode' = HandlerExitCode(MainHandler(e.cls))
    /\ pc' = "exit"

\* main line 127 with the outcome r of validate_and_prepare_config
ValidateOutcome(r) ==
    IF r.ok
    THEN /\ config' = r.val
         /\ pc' = "connect"
         /\ UNCHANGED << exc, handler, log, exitCode >>
    ELSE /\ MainExcept(Error("ValidationError", r.err, ""))
         /\ UNCHANGED config

\* main line 127: config = validate_and_prepare_config()
ValidateConfig ==
    /\ pc = "validate"
    /\ ValidateOutcome(validate_and_prepare_config(environ, fs))
    /\ UNCHANGED << environ, fs, calls, assignee_valid, submitted, issue_key,
                    idx, attempts, successful_attachments, failed_attachments,
                    outputFile, summaryFile >>

\* fault: the outcome of jira.server_info() is ignored
ConnectWithoutLivenessCheck ==
    /\ pc = "connect"
    /\ \E at \in { "JIRA", "server_info" } : \E o \in RemoteOutcomes :
          /\ at = "JIRA" => o.kind # "ok"
          /\ calls' = calls \o
                (IF at = "JIRA" THEN << Call("JIRA", config.jira_server, o) >>
                 ELSE << Call("JIRA", config.jira_server, OkOutcome),
                         Call("server_info", << >>, o) >>)
          /\ IF o.kind = "ok" \/ at = "server_info"
             THEN /\ pc' = "assignee"
                  /\ UNCHANGED << exc, handler, log, exitCode >>
             ELSE MainExcept(ConnectError(o))
    /\ UNCHANGED << environ, fs, config, assignee_valid, submitted, issue_key,
                    idx, attempts, successful_attachments, failed_attachments,
                    outputFile, summaryFile >>

\* JiraClient.__init__: JIRA(...) then jira.server_info()
Connect ==
    /\ pc = "connect"
    /\ \E at \in { "JIRA", "server_info" } : \E o \in RemoteOutcomes :
          /\ at = "JIRA" => o.kind # "ok"
          /\ calls' = calls \o
                (IF at = "JIRA" THEN << Call("JIRA", config.jira_server, o) >>
                 ELSE << Call("JIRA", config.jira_server, OkOutcome),
                         Call("server_info", << >>, o) >>)
          /\ IF o.kind = "ok"
             THEN /\ pc' = "assignee"
                  /\ UNCHANGED << exc, handler, log, exitCode >>
             ELSE MainExcept(ConnectError(o))
    /\ UNCHANGED << environ, fs, config, assignee_valid, submitted, issue_key,
                    idx, attempts, successful_attachments, failed_attachments,
                    outputFile, summaryFile >>

\* fault: the lookup is made whether or not an assignee is configured
ValidateAssigneeUnconditional ==
    /\ pc = "assignee"
    /\ \E o \in UserOutcomes :
          /\ calls' = Append(calls, Call("user", config.assignee, o))
          /\ assignee_valid' = (o.kind = "ok")
          /\ log' = IF o.kind = "ok" THEN log ELSE Warn(log)
    /\ pc' = "parent"
    /\ UNCHANGED << environ, fs, config, submitted, issue_key, idx, attempts,
                    successful_attachments, failed_attachments, exc, handler,
                    exitCode, outputFile, summaryFile >>

\* create_issue lines 77-80: the assignee lookup, if an assignee is given
ValidateAssignee ==
    /\ pc = "assignee"
    /\ IF config.assignee # << >>
       THEN \E o \in UserOutcomes :
              /\ calls' = Append(calls, Call("user", config.assignee, o))
              /\ assignee_valid' = _validate_assignee(o)
              /\ log' = IF o.kind = "ok" THEN log ELSE Warn(log)
       ELSE UNCHANGED << calls, assignee_valid, log >>
    /\ pc' = "parent"
    /\ UNCHANGED << environ, fs, config, submitted, issue_key, idx, attempts,
                    successful_attachments, failed_attachments, exc, handler,
                    exitCode, outputFile, summaryFile >>

\* create_issue lines 82-84: the parent lookup of a sub-task
ValidateParentIssue ==
    /\ pc = "parent"
    /\ IF config.parent_issue_key # << >> /\ Lower(config.issue_type) = SubTaskLower
       THEN \E o \in RemoteOutcomes :
              /\ calls' = Append(calls, Call("issue", config.parent_issue_key, o))
              /\ IF _validate_parent_issue(o) = NoError
                 THEN /\ pc' = "create"
                      /\ UNCHANGED << exc, handler, log, exitCode >>
                 ELSE MainExcept(CreateIssueExcept(_validate_parent_issue(o).cls, 0,
                                                   _validate_parent_issue(o).msg))
       ELSE /\ pc' = "create"
            /\ UNCHANGED << calls, exc, handler, log, exitCode >>
    /\ UNCHANGED << environ, fs, config, assignee_valid, submitted, issue_key,
                    idx, attempts, successful_attachments, failed_attachments,
                    outputFile, summaryFile >>

\* fault: a failed create is submitted a second time
SubmitCreateRetrying ==
    /\ pc = "create"
    /\ submitted' = Append(submitted, _prepare_issue_data(config, assignee_valid))
    /\ \E o \in RemoteOutcomes :
          /\ calls' = Append(calls, Call("create_issue", config.project_key, o))
          /\ IF o.kind = "ok"
             THEN /\ \E k \in IssueKeys : issue_key' = k
                  /\ pc' = "attach"
                  /\ UNCHANGED << exc, handler, log, exitCode >>
             ELSE IF submitted = << >>
             THEN UNCHANGED << pc, issue_key, exc, handler, log, exitCode >>
             ELSE /\ MainExcept(CreateIssueExcept(o.kind, o.status, "remote failure"))
                  /\ UNCHANGED issue_key
    /\ UNCHANGED << environ, fs, config, assignee_valid, idx, attempts,
                    successful_attachments, failed_attachments, outputFile,
                    summaryFile >>

\* create_issue lines 86-93: build the payload and submit it
SubmitCreate ==
    /\ pc = "create"
    /\ submitted' = Append(submitted, _prepare_issue_data(config, assignee_valid))
    /\ \E o \in RemoteOutcomes :
          /\ calls' = Append(calls, Call("create_issue", config.project_key, o))
          /\ IF o.kind = "ok"
             THEN /\ \E k \in IssueKeys : issue_key' = k
                  /\ pc' = "attach"
                  /\ UNCHANGED << exc, handler, log, exitCode >>
             ELSE /\ MainExcept(CreateIssueExcept(o.kind, o.status, "remote failure"))
                  /\ UNCHANGED issue_key
    /\ UNCHANGED << environ, fs, config, assignee_valid, idx, attempts,
                    successful_attachments, failed_attachments, outputFile,
                    summaryFile >>

\* fault: a file that fails the local checks ends the loop (break for continue)
AttachStartBreaking ==
    /\ pc = "attach"
    /\ idx <= Len(config.attachment_paths)
    /\ \E found \in { "file not found", "not readable", "error", "opened" } :
          IF found = "opened"
          THEN /\ calls' = Append(calls, Call("add_attachment",
                                              config.attachment_paths[idx], Pending))
               /\ pc' = "uploading"
               /\ UNCHANGED << idx, attempts, failed_attachments, log >>
          ELSE /\ failed_attachments' =
                     Append(failed_attachments,
                            [ path |-> config.attachment_paths[idx], why |-> found ])
               /\ attempts' =
                     Append(attempts,
                            [ path |-> config.attachment_paths[idx], result |-> found,
                              called |-> FALSE ])
               /\ log' = IF found = "error" THEN Err(log) ELSE Warn(log)
               /\ idx' = Len(config.attachment_paths) + 1
               /\ UNCHANGED << calls, pc >>
    /\ UNCHANGED << environ, fs, config, assignee_valid, submitted, issue_key,
                    successful_attachments, exc, handler, exitCode, outputFile,
                    summaryFile >>

\* _add_attachments, one loop iteration up to the upload: the existence and
\* readability re-checks, getsize and open; a file that passes is uploaded
AttachStart ==
    /\ pc = "attach"
    /\ idx <= Len(config.attachment_paths)
    /\ \E found \in { "file not found", "not readable", "error", "opened" } :
          IF found = "opened"
          THEN /\ calls' = Append(calls, Call("add_attachment",
                                              config.attachment_paths[idx], Pending))
               /\ pc' = "uploading"
               /\ UNCHANGED << idx, attempts, failed_attachments, log >>
          ELSE /\ failed_attachments' =
                     Append(failed_attachments,
                            [ path |-> config.attachment_paths[idx], why |-> found ])
               /\ attempts' =
                     Append(attempts,
                            [ path |-> config.attachment_paths[idx], result |-> found,
                              called |-> FALSE ])
               /\ log' = IF found = "error" THEN Err(log) ELSE Warn(log)
               /\ idx' = idx + 1
               /\ UNCHANGED << calls, pc >>
    /\ UNCHANGED << environ, fs, config, assignee_valid, submitted, issue_key,
                    successful_attachments, exc, handler, exitCode, outputFile,
                    summaryFile >>

\* what an iteration records for the outcome o of jira.add_attachment
UploadResult(o) ==
    IF o.kind = "ok" THEN "attached"
    ELSE IF o.kind = "JIRAError" THEN "Jira error"
    ELSE "error"

\* fault: a failed upload is raised out of the loop, to create_issue's
\* except clauses
AttachFinishRaising ==
    /\ pc = "uploading"
    /\ \E o \in UploadOutcomes :
          /\ calls' = [ calls EXCEPT ![Len(calls)].result = o ]
          /\ IF o.kind = "ok"
             THEN /\ successful_attachments' = successful_attachments + 1
                  /\ attempts' = Append(attempts,
                                        [ path |-> config.attachment_paths[idx],
                                          result |-> UploadResult(o),
                                          called |-> TRUE ])
                  /\ idx' = idx + 1
                  /\ pc' = "attach"
                  /\ UNCHANGED << exc, handler, log, exitCode >>
             ELSE /\ MainExcept(CreateIssueExcept(o.kind, o.status, "upload failure"))
                  /\ UNCHANGED << successful_attachments, attempts, idx >>
    /\ UNCHANGED << environ, fs, config, assignee_valid, submitted, issue_key,
                    failed_attachments, outputFile, summaryFile >>

\* fault: the success counter is raised before jira.add_attachment is called,
\* so a failed upload is counted as a success and as a failure
AttachFinishCountingFirst ==
    /\ pc = "uploading"
    /\ \E o \in UploadOutcomes :
          /\ calls' = [ calls EXCEPT ![Len(calls)].result = o ]
          /\ successful_attachments' = successful_attachments + 1
          /\ IF o.kind = "ok"
             THEN UNCHANGED << failed_attachments, log >>
             ELSE /\ failed_attachments' =
                        Append(failed_attachments,
                               [ path |-> config.attachment_paths[idx],
                                 why |-> UploadResult(o) ])
                  /\ log' = Err(log)
          /\ attempts' = Append(attempts,
                                [ path |-> config.attachment_paths[idx],
                                  result |-> UploadResult(o), called |-> TRUE ])
    /\ idx' = idx + 1
    /\ pc' = "attach"
    /\ UNCHANGED << environ, fs, config, assignee_valid, submitted, issue_key,
                    exc, handler, exitCode, outputFile, summaryFile >>

\* _add_attachments, the rest of the iteration: jira.add_attachment returns
\* or raises, and the loop moves to the next path
AttachFinish ==
    /\ pc = "uploading"
    /\ \E o \in UploadOutcomes :
          /\ calls' = [ calls EXCEPT ![Len(calls)].result = o ]
          /\ IF o.kind = "ok"
             THEN /\ successful_attachments' = successful_attachments + 1
                  /\ UNCHANGED << failed_attachments, log >>
             ELSE /\ failed_attachments' =
                        Append(failed_attachments,
                               [ path |-> config.attachment_paths[idx],
                                 why |-> UploadResult(o) ])
                  /\ log' = Err(log)
                  /\ UNCHANGED successful_attachments
          /\ attempts' = Append(attempts,
                                [ path |-> config.attachment_paths[idx],
                                  result |-> UploadResult(o), called |-> TRUE ])
    /\ idx' = idx + 1
    /\ pc' = "attach"
    /\ UNCHANGED << environ, fs, config, assignee_valid, submitted, issue_key,
                    exc, handler, exitCode, outputFile, summaryFile >>

\* fault: failed attachments are raised once the loop is over, to
\* create_issue's except clauses
ReturnIssueKeyRaising ==
    /\ pc = "attach"
    /\ idx > Len(config.attachment_paths)
    /\ IF failed_attachments # << >>
       THEN MainExcept(CreateIssueExcept("Exception", 0, "attachments failed"))
       ELSE /\ pc' = "set_output_key"
            /\ UNCHANGED << log, exc, handler, exitCode >>
    /\ UNCHANGED << environ, fs, config, calls, assignee_valid, submitted,
                    issue_key, idx, attempts, successful_attachments,
                    failed_attachments, outputFile, summaryFile >>

\* the loop is over (or there was no attachment): the failures are logged in
\* one warning and create_issue returns issue.key to main
ReturnIssueKey ==
    /\ pc = "attach"
    /\ idx > Len(config.attachment_paths)
    /\ log' = IF failed_attachments # << >> THEN Warn(log) ELSE log
    /\ pc' = "set_output_key"
    /\ UNCHANGED << environ, fs, config, calls, assignee_valid, submitted,
                    issue_key, idx, attempts, successful_attachments,
                    failed_attachments, exc, handler, exitCode, outputFile,
                    summaryFile >>

\* GitHubIntegration.set_output: os.getenv("GITHUB_OUTPUT") gives a path or
\* not (isSet), the append succeeds or raises (writeOk); a missing path and a
\* failed write are warnings
set_output(name, value, isSet, writeOk) ==
    IF isSet /\ writeOk
    THEN /\ outputFile' = Append(outputFile, [ name |-> name, value |-> value ])
         /\ UNCHANGED log
    ELSE /\ log' = Warn(log)
         /\ UNCHANGED outputFile

BrowsePath == << "/","b","r","o","w","s","e","/" >>

IssueUrl(server, key) == server \o BrowsePath \o key

\* fault: a missing GITHUB_OUTPUT path or a failed write is raised to main's
\* except Exception clause
SetOutputIssueKeyUnguarded ==
    /\ pc = "set_output_key"
    /\ \E isSet \in BOOLEAN : \E writeOk \in BOOLEAN :
          IF isSet /\ writeOk
          THEN /\ set_output("issue_key", issue_key, isSet, writeOk)
               /\ pc' = "set_output_url"
               /\ UNCHANGED << exc, handler, exitCode >>
          ELSE /\ MainExcept(Error("OSError", "no output file", ""))
               /\ UNCHANGED outputFile
    /\ UNCHANGED << environ, fs, config, calls, assignee_valid, submitted,
                    issue_key, idx, attempts, successful_attachments,
                    failed_attachments, summaryFile >>

\* main line 137
SetOutputIssueKey ==
    /\ pc = "set_output_key"
    /\ \E isSet \in BOOLEAN : \E writeOk \in BOOLEAN :
          set_output("issue_key", issue_key, isSet, writeOk)
    /\ pc' = "set_output_url"
    /\ UNCHANGED << environ, fs, config, calls, assignee_valid, submitted,
                    issue_key, idx, attempts, successful_attachments,
                    failed_attachments, exc, handler, exitCode, summaryFile >>

\* main line 138
SetOutputIssueUrl ==
    /\ pc = "set_output_url"
    /\ \E isSet \in BOOLEAN : \E writeOk \in BOOLEAN :
          set_output("issue_url", IssueUrl(config.jira_server, issue_key),
                     isSet, writeOk)
    /\ pc' = "step_summary"
    /\ UNCHANGED << environ, fs, config, calls, assignee_valid, submitted,
                    issue_key, idx, attempts, successful_attachments,
                    failed_attachments, exc, handler, exitCode, summaryFile >>

\* GitHubIntegration.update_step_summary, with os.getenv and the append as in
\* set_output
update_step_summary(server, key, isSet, writeOk) ==
    IF isSet /\ writeOk
    THEN /\ summaryFile' = Append(summaryFile,
                                  [ key |-> key, url |-> IssueUrl(server, key) ])
         /\ UNCHANGED log
    ELSE /\ log' = Warn(log)
         /\ UNCHANGED summaryFile

\* fault: the step summary is written without the try/except, so a failed
\* write reaches main's except Exception clause
UpdateStepSummaryUnguarded ==
    /\ pc = "step_summary"
    /\ \E isSet \in BOOLEAN : \E writeOk \in BOOLEAN :
          IF isSet /\ ~writeOk
          THEN /\ MainExcept(Error("OSError", "write failed", ""))
               /\ UNCHANGED summaryFile
          ELSE /\ update_step_summary(config.jira_server, issue_key, isSet, writeOk)
               /\ pc' = "exit"
               /\ exitCode' = 0
               /\ UNCHANGED << exc, handler >>
    /\ UNCHANGED << environ, fs, config, calls, assignee_valid, submitted,
                    issue_key, idx, attempts, successful_attachments,
                    failed_attachments, outputFile >>

\* main lines 141-143: the step summary, then main returns and the process
\* ends with exit code 0
UpdateStepSummary ==
    /\ pc = "step_summary"
    /\ \E isSet \in BOOLEAN : \E writeOk \in BOOLEAN :
          update_step_summary(config.jira_server, issue_key, isSet, writeOk)
    /\ pc' = "exit"
    /\ exitCode' = 0
    /\ UNCHANGED << environ, fs, config, calls, assignee_valid, submitted,
                    issue_key, idx, attempts, successful_attachments,
                    failed_attachments, exc, handler, outputFile >>

Next ==
    \/ ValidateConfig
    \/ Connect
    \/ ValidateAssignee
    \/ ValidateParentIssue
    \/ SubmitCreate
    \/ AttachStart
    \/ AttachFinish
    \/ ReturnIssueKey
    \/ SetOutputIssueKey
    \/ SetOutputIssueUrl
    \/ UpdateStepSummary

Spec == Init /\ [][Next]_vars

(***************************************************************************)
(* Vocabulary of the properties.                                           *)
(***************************************************************************)
\* the operations of the jira library that reach the remote service
RemoteOps == { "JIRA", "server_info", "user", "issue", "create_issue", "add_attachment" }

CallsOf(op) == { i \in 1..Len(calls) : calls[i].op = op }

Called(op) == CallsOf(op) # {}

CallFailed(op) == \E i \in CallsOf(op) : calls[i].result.kind \in { "JIRAError", "Exception" }

CallSucceeded(op) == \E i \in CallsOf(op) : calls[i].result.kind = "ok"

Validated == config # EmptyConfig

\* create_issue has returned the key to main
Returned == pc \in { "set_output_key", "set_output_url", "step_summary" } \/ exitCode = 0

OutputWritten == outputFile # << >> \/ summaryFile # << >>

SubTaskWithoutParent ==
    Lower(Strip(environ.issue_type)) = SubTaskLower /\ Strip(environ.parent_issue_key) = << >>

\* the connect step has just been made: the first remote call of the run
FirstCallMade == calls # << >> /\ ~Called("user") /\ ~Called("issue") /\ ~Called("create_issue")

ValidationPassed(r) == r.ok /\ config = r.val

(***************************************************************************)
(* C1: no call to the remote service (connect, assignee lookup, parent     *)
(* lookup, create, attach) is made unless validate_and_prepare_config has  *)
(* completed without error; a run with issue type Sub-task and an empty    *)
(* parent key raises ValidationError and makes no call at all.             *)
(***************************************************************************)
C1_NoRemoteCallWithoutValidation ==
    /\ calls # << >> => pc # "validate" /\ Validated
    /\ Validated =>
          /\ config.issue_type \in VALID_ISSUE_TYPES
          /\ config.issue_type = SubTaskStr => config.parent_issue_key # << >>
    /\ FirstCallMade => ValidationPassed(validate_and_prepare_config(environ, fs))
    /\ \A i \in 1..Len(calls) : calls[i].op \in RemoteOps
    /\ exc.cls = "ValidationError" => calls = << >>
    /\ SubTaskWithoutParent =>
          /\ calls = << >>
          /\ pc = "exit" => exc.cls = "ValidationError" /\ exitCode = 1

C1_Witness ==
    /\ SubTaskWithoutParent
    /\ pc = "exit"
    /\ exc = Error("ValidationError", "Parent issue key is required for Sub-task type", "")
    /\ calls = << >>

(***************************************************************************)
(* C2: a run that ends with exit code 1 has written no issue_key or        *)
(* issue_url output line and no step-summary line; outputs are written     *)
(* only after create_issue returned a key, and no failure follows a write. *)
(***************************************************************************)
C2_NoOutputOnFailure ==
    /\ exitCode = 1 => outputFile = << >> /\ summaryFile = << >>
    /\ OutputWritten =>
          /\ issue_key \in IssueKeys
          /\ CallSucceeded("create_issue")
          /\ pc \in { "set_output_url", "step_summary", "exit" }
          /\ exc = NoError
          /\ exitCode \in { -1, 0 }
    /\ pc \in { "set_output_url", "step_summary" } => ENABLED Next

C2_Witness ==
    /\ exitCode = 1
    /\ Called("create_issue")
    /\ outputFile = << >>
    /\ summaryFile = << >>

(***************************************************************************)
(* C3: a run ends with exit code 0 exactly when validation, connect and    *)
(* create all succeeded, and with exit code 1 for every ValidationError,   *)
(* JiraConnectionError, JiraOperationError, other JiraActionError or       *)
(* unexpected exception; there is no other exit code, and a run stops      *)
(* nowhere but at its exit.                                                 *)
(***************************************************************************)
C3_ExitCodes ==
    /\ exitCode \in { -1, 0, 1 }
    /\ pc = "exit" <=> exitCode # -1
    /\ pc \notin { "exit", "validate" } => ENABLED Next
    /\ exitCode = 0 <=>
          /\ pc = "exit"
          /\ Validated
          /\ CallSucceeded("server_info")
          /\ CallSucceeded("create_issue")
    /\ exitCode = 1 <=> pc = "exit" /\ exc # NoError
    /\ exc # NoError =>
          /\ exc.cls \in { "ValidationError", "JiraConnectionError", "JiraOperationError" }
          /\ handler = MainHandler(exc.cls)
          /\ exc.cls = "ValidationError" <=> ~Validated
          /\ exc.cls = "JiraConnectionError" <=>
                Validated /\ ~CallSucceeded("server_info")
          /\ exc.cls = "JiraOperationError" <=>
                CallSucceeded("server_info") /\ ~CallSucceeded("create_issue")
    /\ \A cls \in JiraActionErrorClasses \cup { "Exception", "OSError" } :
          HandlerExitCode(MainHandler(cls)) = 1

C3_Witness ==
    /\ exitCode = 0
    /\ Validated
    /\ CallSucceeded("server_info")
    /\ CallSucceeded("create_issue")
    /\ handler = ""

C5_AssigneeBestEffort ==
    CallFailed("user") =>
       /\ config.assignee # << >>
       /\ ~assignee_valid
       /\ calls[Len(calls)].op = "user" =>
             pc \in { "parent", "create" } /\ exc = NoError /\ exitCode = -1
       /\ \A i \in 1..Len(submitted) : "assignee" \notin DOMAIN submitted[i]
       /\ pc = "exit" => Len(submitted) = 1 \/ CallFailed("issue")
       /\ exc # NoError => CallFailed("issue") \/ CallFailed("create_issue")

C5_Witness ==
    /\ \E i \in CallsOf("user") : calls[i].result = [ kind |-> "JIRAError", status |-> 404 ]
    /\ Len(submitted) = 1
    /\ "assignee" \notin DOMAIN submitted[1]
    /\ exitCode = 0

(***************************************************************************)
(* C6: for a sub-task whose parent issue cannot be looked up (not found,   *)
(* inaccessible, any other failure of the lookup) create_issue raises      *)
(* JiraOperationError and the remote create is never submitted.            *)
(***************************************************************************)
C6_ParentLookupAborts ==
    /\ CallFailed("issue") =>
          /\ Lower(config.issue_type) = SubTaskLower
          /\ pc = "exit"
          /\ exc.cls = "JiraOperationError"
          /\ handler = "except JiraOperationError"
          /\ exitCode = 1
          /\ submitted = << >>
          /\ ~Called("create_issue")
          /\ calls[Len(calls)].op = "issue"
    /\ Called("create_issue") /\ Lower(config.issue_type) = SubTaskLower =>
          CallSucceeded("issue")

C6_Witness ==
    /\ \E i \in CallsOf("issue") : calls[i].result = [ kind |-> "JIRAError", status |-> 404 ]
    /\ exc.cls = "JiraOperationError"
    /\ submitted = << >>
    /\ pc = "exit"

IsUploadCall(c) == c.op = "add_attachment"

WasUploaded(a) == a.called

UploadCalls == SelectSeq(calls, IsUploadCall)

UploadedAttempts == SelectSeq(attempts, WasUploaded)

C8_AttachmentsInOrder ==
    /\ Len(attempts) = idx - 1
    /\ idx <= Len(config.attachment_paths) + 1
    /\ \A i \in 1..Len(attempts) : attempts[i].path = config.attachment_paths[i]
    /\ Returned => Len(attempts) = Len(config.attachment_paths)
    /\ pc \in { "attach", "uploading" } => ENABLED Next
    /\ Len(UploadCalls) = Len(UploadedAttempts) + (IF pc = "uploading" THEN 1 ELSE 0)
    /\ \A i \in 1..Len(UploadedAttempts) :
          /\ UploadCalls[i].arg = UploadedAttempts[i].path
          /\ UploadCalls[i].result # Pending
          /\ UploadResult(UploadCalls[i].result) = UploadedAttempts[i].result
    /\ pc = "uploading" =>
          /\ idx <= Len(config.attachment_paths)
          /\ calls[Len(calls)] = Call("add_attachment", config.attachment_paths[idx], Pending)

C8_Witness ==
    /\ Returned
    /\ Len(attempts) = 2
    /\ attempts[1].path = PathB
    /\ attempts[2].path = PathA
    /\ attempts[1].result = "not readable"
    /\ attempts[2].result = "attached"

(***************************************************************************)
(* C9: the payload submitted to create always has project, issue type,     *)
(* summary, description and priority; it has labels iff the label list is  *)
(* non-empty, parent iff the issue type is the sub-task variant and a      *)
(* parent key is present, assignee iff an assignee was configured and its  *)
(* lookup succeeded.                                                        *)
(***************************************************************************)
C9_Payload ==
    \A i \in 1..Len(submitted) :
       /\ { "project", "issuetype", "summary", "description", "priority" }
             \subseteq DOMAIN submitted[i]
       /\ DOMAIN submitted[i] \subseteq
             { "project", "issuetype", "summary", "description", "priority",
               "labels", "parent", "assignee" }
       /\ submitted[i].project = config.project_key
       /\ submitted[i].issuetype = config.issue_type
       /\ submitted[i].summary = config.issue_summary
       /\ submitted[i].description = config.issue_description
       /\ submitted[i].priority = config.issue_priority
       /\ "labels" \in DOMAIN submitted[i] <=> config.labels # << >>
       /\ "parent" \in DOMAIN submitted[i] <=>
             Lower(config.issue_type) = SubTaskLower /\ config.parent_issue_key # << >>
       /\ "assignee" \in DOMAIN submitted[i] <=>
             config.assignee # << >> /\ CallSucceeded("user")
       /\ "labels" \in DOMAIN submitted[i] => submitted[i].labels = config.labels
       /\ "parent" \in DOMAIN submitted[i] => submitted[i].parent = config.parent_issue_key
       /\ "assignee" \in DOMAIN submitted[i] => submitted[i].assignee = config.assignee

C9_Witness ==
    /\ Len(submitted) = 1
    /\ "labels" \notin DOMAIN submitted[1]
    /\ "parent" \notin DOMAIN submitted[1]
    /\ "assignee" \in DOMAIN submitted[1]
    /\ config.parent_issue_key # << >>
    /\ config.issue_type = TaskStr

(***************************************************************************)
(* C10: for a valid configuration with no assignee and no parent the run   *)
(* connects and creates and makes no assignee lookup and no parent lookup  *)
(* (the create following a successful connect); with an empty attachment   *)
(* list it makes no attachment call.                                        *)
(***************************************************************************)
C10_NoLookupsNoAttachments ==
    /\ Validated /\ config.assignee = << >> /\ config.parent_issue_key = << >> =>
          /\ ~Called("user")
          /\ ~Called("issue")
          /\ pc = "exit" =>
                /\ calls[1].op = "JIRA"
                /\ CallSucceeded("server_info") =>
                      /\ Len(calls) >= 3
                      /\ calls[2].op = "server_info"
                      /\ calls[3].op = "create_issue"
                /\ \A i \in 1..Len(calls) :
                      i > 3 => calls[i].op = "add_attachment"
    /\ Validated /\ config.attachment_paths = << >> => ~Called("add_attachment")
    /\ Validated /\ config.assignee = << >> => ~Called("user")

C10_Witness ==
    /\ exitCode = 0
    /\ config.assignee = << >>
    /\ config.parent_issue_key = << >>
    /\ config.labels = << << "b","u","g" >>, << "f","r","o","n","t","e","n","d" >> >>
    /\ config.attachment_paths = << >>
    /\ "labels" \in DOMAIN submitted[1]
    /\ Len(calls) = 3

\* the connect step failed, and how
ConnectFailed == CallFailed("JIRA") \/ CallFailed("server_info")

ConnectFailure == calls[Len(calls)].result

CreateFailure == calls[Len(calls)].result

(***************************************************************************)
(* C11: every failure of the connect step (the JIRA constructor or the     *)
(* server_info request), whatever the status code or the exception type,   *)
(* is raised as JiraConnectionError, never as an operation, validation or  *)
(* unclassified error.                                                      *)
(***************************************************************************)
C11_ConnectFailuresAreConnectionErrors ==
    /\ ConnectFailed =>
          /\ pc = "exit"
          /\ Len(calls) <= 2
          /\ exc.cls = "JiraConnectionError"
          /\ handler = "except JiraConnectionError"
          /\ exitCode = 1
    /\ exc.cls = "JiraConnectionError" => ConnectFailed

C11_Witness ==
    /\ CallFailed("server_info")
    /\ ConnectFailure = [ kind |-> "Exception", status |-> 0 ]
    /\ exc.cls = "JiraConnectionError"

(***************************************************************************)
(* C12, as stated: a connect failure with a status code takes its message  *)
(* from the table, 401, 403, 404 and 429 their own message and every 5xx   *)
(* status a server-side message; only the other codes get the generic      *)
(* message.                                                                 *)
(***************************************************************************)
ServerSideMessages ==
    { "Jira server internal error. Please try again later or contact your administrator.",
      "Bad gateway. There may be network connectivity issues.",
      "Jira service unavailable. The server may be under maintenance.",
      "Gateway timeout. The request took too long to complete." }

C12_Every5xxServerSide ==
    ConnectFailed /\ ConnectFailure.kind = "JIRAError" =>
       /\ ConnectFailure.status = 401 =>
             exc.msg = "Authentication failed. Please check your username and API token."
       /\ ConnectFailure.status = 403 =>
             exc.msg = "Access forbidden. Your account may not have permission to access this Jira instance."
       /\ ConnectFailure.status = 404 =>
             exc.msg = "Jira server not found. Please verify the server URL."
       /\ ConnectFailure.status = 429 =>
             exc.msg = "Rate limit exceeded. Please try again later."
       /\ ConnectFailure.status \in 500..599 => exc.msg \in ServerSideMessages
       /\ ConnectFailure.status \notin { 401, 403, 404, 429 } \cup (500..599) =>
             exc.msg = "Connection to Jira failed"

(***************************************************************************)
(* C12, as the code has it: 401, 403, 404, 429, 500, 502, 503 and 504 have *)
(* a message of their own; every other status, the other 5xx codes such as *)
(* 501 included, gets the generic message, with the raw status in the      *)
(* details.                                                                 *)
(***************************************************************************)
C12_ConnectionMessageTable ==
    ConnectFailed /\ ConnectFailure.kind = "JIRAError" =>
       /\ exc.details = "HTTP " \o StatusText(ConnectFailure.status)
       /\ exc.msg =
             (CASE ConnectFailure.status = 401 ->
                     "Authentication failed. Please check your username and API token."
                [] ConnectFailure.status = 403 ->
                     "Access forbidden. Your account may not have permission to access this Jira instance."
                [] ConnectFailure.status = 404 ->
                     "Jira server not found. Please verify the server URL."
                [] ConnectFailure.status = 429 ->
                     "Rate limit exceeded. Please try again later."
                [] ConnectFailure.status = 500 ->
                     "Jira server internal error. Please try again later or contact your administrator."
                [] ConnectFailure.status = 502 ->
                     "Bad gateway. There may be network connectivity issues."
                [] ConnectFailure.status = 503 ->
                     "Jira service unavailable. The server may be under maintenance."
                [] ConnectFailure.status = 504 ->
                     "Gateway timeout. The request took too long to complete."
                [] OTHER -> "Connection to Jira failed")

C12_Witness ==
    /\ ConnectFailed
    /\ ConnectFailure = [ kind |-> "JIRAError", status |-> 501 ]
    /\ exc.msg = "Connection to Jira failed"
    /\ exc.details = "HTTP 501"

(***************************************************************************)
(* C13: a failed remote create is always raised as JiraOperationError; the *)
(* message is the table's for status 400, 401, 403, 404, 409, 422 and 429  *)
(* and the generic operation-failed message, with the raw status in the    *)
(* details, for every other status code.                                    *)
(***************************************************************************)
C13_OperationMessageTable ==
    CallFailed("create_issue") =>
       /\ exc.cls = "JiraOperationError"
       /\ handler = "except JiraOperationError"
       /\ CreateFailure.kind = "JIRAError" =>
             /\ exc.details = "HTTP " \o StatusText(CreateFailure.status)
             /\ exc.msg =
                   (CASE CreateFailure.status = 400 ->
                           "Bad request for create issue. Please check your input parameters."
                      [] CreateFailure.status = 401 ->
                           "Authentication failed during create issue."
                      [] CreateFailure.status = 403 ->
                           "Permission denied for create issue. Contact your Jira administrator."
                      [] CreateFailure.status = 404 ->
                           "Resource not found for create issue. Check project key, issue type, or parent issue."
                      [] CreateFailure.status = 409 ->
                           "Conflict occurred during create issue. The resource may already exist."
                      [] CreateFailure.status = 422 ->
                           "Invalid input for create issue. Check required fields and field types."
                      [] CreateFailure.status = 429 ->
                           "Rate limit exceeded during create issue. Please try again later."
                      [] OTHER -> "Operation 'create issue' failed")
       /\ CreateFailure.kind = "Exception" =>
             exc.msg = "Unexpected error creating issue: remote failure"

C13_Witness ==
    /\ CallFailed("create_issue")
    /\ CreateFailure = [ kind |-> "JIRAError", status |-> 409 ]
    /\ exc = Error("JiraOperationError",
                   "Conflict occurred during create issue. The resource may already exist.",
                   "HTTP 409")

\* the validation step raised
ValidationFailed == pc = "exit" /\ exc.cls = "ValidationError"

\* PROJECT-NUMBER: a key that starts with a capital letter and goes on with
\* capitals, digits and underscores, a hyphen, one or more digits
HasIssueKeyForm(k) ==
    \E h \in 2..(Len(k) - 1) :
        /\ k[h] = "-"
        /\ k[1] \in UpperChars
        /\ \A i \in 2..(h - 1) : k[i] \in UpperChars \cup DigitChars \cup { "_" }
        /\ \A i \in (h + 1)..Len(k) : k[i] \in DigitChars

(***************************************************************************)
(* C14: every configuration validate_and_prepare_config returns with the   *)
(* sub-task issue type has a non-empty parent key of the form              *)
(* PROJECT-NUMBER; a sub-task configuration without a parent key is never  *)
(* returned, it is a validation failure.                                    *)
(***************************************************************************)
C14_SubTaskHasParent ==
    /\ Validated /\ Lower(config.issue_type) = SubTaskLower =>
          /\ config.parent_issue_key # << >>
          /\ HasIssueKeyForm(config.parent_issue_key)
    /\ Validated /\ config.parent_issue_key # << >> =>
          HasIssueKeyForm(config.parent_issue_key)
    /\ SubTaskWithoutParent /\ pc # "validate" => ValidationFailed /\ ~Validated

C14_Witness ==
    /\ Validated
    /\ config.issue_type = SubTaskStr
    /\ config.parent_issue_key = << "P","R","O","J","-","1","2" >>
    /\ pc = "connect"

\* the required inputs that are unset or empty, and the fields whose
\* validator rejects its input (r: the validators' results, in main's order)
MissingInputs == { i \in 1..Len(RequiredInputs) : environ[RequiredInputs[i]] = << >> }

InvalidFields(r) == { i \in 1..Len(r) : ~r[i].ok }

Least(S) == CHOOSE i \in S : \A j \in S : i <= j

CrossFieldMessage == "Parent issue key is required for Sub-task type"

\* the error raised is that of the first field, in the stated order, whose
\* value is invalid (an empty required input being an invalid value of its
\* field), and the cross-field error only when every field is valid
ReportsFirstInvalidField(r) ==
    IF InvalidFields(r) # {}
    THEN exc.msg \in { r[Least(InvalidFields(r))].err,
                       EnvironmentError(IF Least(InvalidFields(r)) <= Len(RequiredInputs)
                                        THEN Least(InvalidFields(r)) ELSE 1) }
    ELSE exc.msg = CrossFieldMessage

\* the error raised is that of the first missing required input if there is
\* one, else that of the first invalid field, else the cross-field error
ReportsMissingThenInvalid(r) ==
    IF MissingInputs # {} THEN exc.msg = EnvironmentError(Least(MissingInputs))
    ELSE IF InvalidFields(r) # {} THEN exc.msg = r[Least(InvalidFields(r))].err
    ELSE /\ exc.msg = CrossFieldMessage
         /\ SubTaskWithoutParent

(***************************************************************************)
(* C15, as stated: validation fails at the first offending field: with     *)
(* several invalid inputs the error raised is that of the first invalid    *)
(* field in the order server, username, token, project key, issue type,    *)
(* summary, description, priority, parent key, labels, attachment paths,   *)
(* assignee, and the sub-task cross-field check comes after every field.   *)
(***************************************************************************)
C15_FirstInvalidFieldOnly ==
    ValidationFailed => ReportsFirstInvalidField(ValidatorResults(environ, fs))

(***************************************************************************)
(* C15, as the code has it: all inputs are read first, and a required      *)
(* input that is unset or empty is reported (the first such, in the same   *)
(* order) before any field is validated, even if an earlier field is       *)
(* invalid; with every required input present the error raised is that of  *)
(* the first invalid field in the stated order, and the sub-task           *)
(* cross-field error is raised only when every field is valid.             *)
(***************************************************************************)
C15_MissingInputThenFirstInvalidField ==
    /\ ValidationFailed => ReportsMissingThenInvalid(ValidatorResults(environ, fs))
    /\ ValidationFailed => ~Validated /\ calls = << >>

C15_Witness ==
    /\ ValidationFailed
    /\ environ.jira_server = << "f","t","p",":","/","/","x",".","c","o","m" >>
    /\ environ.jira_api_token = << >>
    /\ exc.msg = "Environment variable error: Required environment variable INPUT_JIRA_API_TOKEN is not set"

\* the inputs are about to be validated; the configuration has just been
\* returned
AtValidation == pc = "validate"

JustValidated == pc = "connect"

(***************************************************************************)
(* C16: the dangerous-content rule is applied to the server URL, summary,  *)
(* description, username, assignee and every label, and never to the API   *)
(* token, project key, issue type, priority or attachment paths;           *)
(* validate_token accepts every trimmed token of 20 characters or more,    *)
(* whatever dangerous content it holds.                                     *)
(***************************************************************************)
\* no value the validators of the first group accept matches the rule
AppliedFieldsClean(c) ==
    /\ ~MatchesMalicious(c.jira_server)
    /\ ~MatchesMalicious(c.issue_summary)
    /\ ~MatchesMalicious(c.issue_description)
    /\ ~MatchesMalicious(c.jira_username)
    /\ ~MatchesMalicious(c.assignee)
    /\ \A i \in 1..Len(c.labels) : ~MatchesMalicious(c.labels[i])

\* a text of the first group that passes every other check of its field is
\* rejected for its content, with the rule's message
RuleRejects(e) ==
    /\ MatchesMalicious(Strip(e.issue_summary)) /\ Strip(e.issue_summary) # << >>
          /\ Len(Strip(e.issue_summary)) <= MaxSummaryLen
          /\ (\A i \in 1..Len(e.issue_summary) : e.issue_summary[i] \notin ControlChars)
       => validate_summary(e.issue_summary) = Fail(MaliciousMsg)
    /\ MatchesMalicious(Strip(e.issue_description))
          /\ Len(Strip(e.issue_description)) <= MaxDescriptionLen
       => validate_description(e.issue_description) = Fail(MaliciousMsg)
    /\ MatchesMalicious(Strip(e.jira_server))
          /\ UrlParse(Strip(e.jira_server)).scheme \in { HttpStr, HttpsStr }
          /\ UrlParse(Strip(e.jira_server)).netloc # << >>
          /\ ~UrlParse(Strip(e.jira_server)).valueError
       => validate_url(e.jira_server) = Fail(MaliciousMsg)

\* the validators of the second group never give the rule's message, and a
\* token is judged by its trimmed length and the placeholder list alone
RuleNotApplied(e, f) ==
    /\ validate_token(e.jira_api_token).err # MaliciousMsg
    /\ validate_project_key(e.project_key).err # MaliciousMsg
    /\ validate_issue_type(e.issue_type).err # MaliciousMsg
    /\ validate_priority(e.issue_priority).err # MaliciousMsg
    /\ validate_attachment_paths(e.attachment_paths, f).err # MaliciousMsg
    /\ Len(Strip(e.jira_api_token)) >= MinTokenLen =>
          validate_token(e.jira_api_token) = Ok(Strip(e.jira_api_token))

C16_SecurityRuleScope ==
    /\ AtValidation => RuleRejects(environ) /\ RuleNotApplied(environ, fs)
    /\ JustValidated => AppliedFieldsClean(config)
    /\ JustValidated /\ Len(Strip(environ.jira_api_token)) >= MinTokenLen =>
          config.jira_api_token = Strip(environ.jira_api_token)

C16_Witness ==
    /\ JustValidated
    /\ MatchesMalicious(config.jira_api_token)
    /\ config.jira_api_token = environ.jira_api_token
    /\ Len(config.jira_api_token) = MinTokenLen

(***************************************************************************)
(* C17: for every input that contains ';', a backquote, '$(...)' or        *)
(* '<script', each validator of a field subject to the security rule       *)
(* (server URL, summary, description, username and assignee, label) fails, *)
(* and fails with the malicious-content message rather than another one.   *)
(***************************************************************************)
ClaimedSignature(t) ==
    \/ \E i \in 1..Len(t) : t[i] \in { ";", BackQuote }
    \/ \E i \in 1..Len(t) : \E k \in (i + 2)..Len(t) :
          t[i] = "$" /\ t[i + 1] = "(" /\ t[k] = ")"
    \/ Contains(t, << "<","s","c","r","i","p","t" >>)

C17_SignatureAlwaysMalicious ==
    AtValidation =>
       /\ ClaimedSignature(environ.issue_summary) =>
             validate_summary(environ.issue_summary) = Fail(MaliciousMsg)
       /\ ClaimedSignature(environ.issue_description) =>
             validate_description(environ.issue_description) = Fail(MaliciousMsg)
       /\ ClaimedSignature(environ.jira_server) =>
             validate_url(environ.jira_server) = Fail(MaliciousMsg)
       /\ ClaimedSignature(environ.jira_username) =>
             validate_username(environ.jira_username) = Fail(MaliciousMsg)
       /\ ClaimedSignature(environ.assignee) =>
             validate_username(environ.assignee) = Fail(MaliciousMsg)
       /\ ClaimedSignature(environ.issue_labels) =>
             validate_labels(environ.issue_labels) = Fail(MaliciousMsg)

(***************************************************************************)
(* C18: validate_url is idempotent on its outputs: validating a returned   *)
(* URL again succeeds and returns the same URL.                             *)
(***************************************************************************)
C18_UrlIdempotent ==
    JustValidated => validate_url(config.jira_server) = Ok(config.jira_server)

(***************************************************************************)
(* C19, as stated: on an accepted URL validate_url removes one trailing    *)
(* slash from the trimmed input and nothing else.                           *)
(***************************************************************************)
TrimmedUrl == Strip(environ.jira_server)

C19_OneTrailingSlashRemoved ==
    JustValidated =>
       config.jira_server =
          (IF TrimmedUrl[Len(TrimmedUrl)] = "/"
           THEN SubSeq(TrimmedUrl, 1, Len(TrimmedUrl) - 1)
           ELSE TrimmedUrl)

(***************************************************************************)
(* C19, as the code has it: on an accepted URL validate_url removes every  *)
(* trailing slash from the trimmed input and nothing else: the result is   *)
(* the trimmed input up to its last character that is not a slash.          *)
(***************************************************************************)
C19_AllTrailingSlashesRemoved ==
    JustValidated =>
       /\ Len(config.jira_server) <= Len(TrimmedUrl)
       /\ config.jira_server = SubSeq(TrimmedUrl, 1, Len(config.jira_server))
       /\ \A i \in (Len(config.jira_server) + 1)..Len(TrimmedUrl) : TrimmedUrl[i] = "/"
       /\ config.jira_server # << >>
       /\ config.jira_server[Len(config.jira_server)] # "/"

C19_Witness ==
    /\ JustValidated
    /\ environ.jira_server = XComUrl \o << "/", "/" >>
    /\ config.jira_server = XComUrl

(***************************************************************************)
(* C20: for every token shorter than 20 characters validate_token fails    *)
(* with a validation error and returns no value.                            *)
(***************************************************************************)
C20_ShortTokenRejected ==
    Len(environ.jira_api_token) < 20 =>
       /\ AtValidation =>
             /\ ~validate_token(environ.jira_api_token).ok
             /\ validate_token(environ.jira_api_token).val = << >>
             /\ validate_token(environ.jira_api_token).err \in
                   { "API token cannot be empty",
                     "API token appears to be too short (minimum 20 characters)" }
       /\ ~Validated
       /\ config.jira_api_token = << >>
       /\ pc # "validate" => ValidationFailed /\ calls = << >>

C20_Witness ==
    /\ Len(environ.jira_api_token) = 19
    /\ ValidationFailed
    /\ exc.msg = "API token appears to be too short (minimum 20 characters)"
    /\ config = EmptyConfig

(***************************************************************************)
(* C21, as stated: for every project key that matches ^[A-Z][A-Z0-9_]*$    *)
(* and is at most 10 characters long validate_project_key returns the key  *)
(* unchanged (upper-cased); for every key whose first character is a       *)
(* digit, that contains a hyphen, or that is longer than 10 characters it  *)
(* fails.                                                                   *)
(***************************************************************************)
KeyAccepted(k) ==
    IsProjectKey(k) /\ Len(k) <= 10 => validate_project_key(k) = Ok(k)

KeyRejected(k, len) ==
    \/ k # << >> /\ k[1] \in DigitChars
    \/ \E i \in 1..Len(k) : k[i] = "-"
    \/ len > 10
    => /\ ~validate_project_key(k).ok
       /\ validate_project_key(k).val = << >>

C21_LongKeyAlwaysFails ==
    AtValidation =>
       /\ KeyAccepted(environ.project_key)
       /\ KeyRejected(environ.project_key, Len(environ.project_key))

(***************************************************************************)
(* C21, as the code has it: the length is taken after trimming. A key that *)
(* matches the pattern and is at most 10 characters long is returned       *)
(* unchanged, a lower-case key is returned upper-cased, and a key whose    *)
(* first character is a digit, that contains a hyphen, or whose trimmed    *)
(* length is over 10 characters fails and never reaches the configuration. *)
(***************************************************************************)
C21_ProjectKeyContract ==
    /\ AtValidation =>
          /\ KeyAccepted(environ.project_key)
          /\ KeyRejected(environ.project_key, Len(Strip(environ.project_key)))
    /\ JustValidated =>
          /\ config.project_key = Upper(Strip(environ.project_key))
          /\ IsProjectKey(config.project_key)
          /\ Len(config.project_key) <= 10

C21_Witness ==
    /\ JustValidated
    /\ Len(environ.project_key) = 10
    /\ config.project_key = environ.project_key

(***************************************************************************)
(* C22: when validate_labels succeeds, its result is exactly the sequence  *)
(* of the comma-separated tokens of the input, each trimmed, with the      *)
(* empty tokens dropped, in input order and with duplicates kept           *)
(* ("a, b ,,c" gives ["a","b","c"]); an empty or whitespace-only input     *)
(* gives the empty list.                                                    *)
(***************************************************************************)
\* the positions that bound the tokens of s: before s, each comma, after s
Separators(s) == { 0, Len(s) + 1 } \cup { i \in 1..Len(s) : s[i] = "," }

\* the token of s that starts after separator a, trimmed
TokenAfter(s, a) ==
    Strip(SubSeq(s, a + 1, Least({ b \in Separators(s) : b > a }) - 1))

\* the separators followed by a token that is not empty once trimmed
TokenStarts(s) ==
    { a \in Separators(s) : a <= Len(s) /\ TokenAfter(s, a) # << >> }

\* l is the sequence of the trimmed non-empty tokens of s, in order
IsTokenList(l, s) ==
    /\ Len(l) = Cardinality(TokenStarts(s))
    /\ \A a \in TokenStarts(s) :
          l[Cardinality({ b \in TokenStarts(s) : b <= a })] = TokenAfter(s, a)

C22_LabelsAreTheTokens ==
    /\ AtValidation /\ validate_labels(environ.issue_labels).ok =>
          IsTokenList(validate_labels(environ.issue_labels).val, environ.issue_labels)
    /\ AtValidation /\ Strip(environ.issue_labels) = << >> =>
          validate_labels(environ.issue_labels) = Ok(<< >>)
    /\ AtValidation /\ environ.issue_labels = << "a",","," ","b"," ",",",",","c" >> =>
          validate_labels(environ.issue_labels) = Ok(<< << "a" >>, << "b" >>, << "c" >> >>)
    /\ JustValidated => IsTokenList(config.labels, environ.issue_labels)

C22_Witness ==
    /\ JustValidated
    /\ environ.issue_labels = << "a",",","b",",","a" >>
    /\ config.labels = << << "a" >>, << "b" >>, << "a" >> >>

(***************************************************************************)
(* C23: validate_attachment_paths fails whenever a path of the list        *)
(* contains ".." or begins with "/", whether or not that file exists, and  *)
(* it is fail-fast: when any path of the list is rejected, for whatever    *)
(* reason, an error is raised and no partial list of the paths accepted    *)
(* before it is returned.                                                   *)
(***************************************************************************)
\* the paths of a comma-separated list
PathsOf(s) == { TokenAfter(s, a) : a \in TokenStarts(s) }

ForbiddenPath(p) == Contains(p, << ".", "." >>) \/ p[1] = "/"

HasForbiddenPath == \E p \in PathsOf(environ.attachment_paths) : ForbiddenPath(p)

HasRejectedPath == \E p \in PathsOf(environ.attachment_paths) : CheckPath(p, fs) # ""

C23_AttachmentPathsFailFast ==
    /\ AtValidation /\ HasForbiddenPath =>
          \A f \in FsStates :
             /\ ~validate_attachment_paths(environ.attachment_paths, f).ok
             /\ validate_attachment_paths(environ.attachment_paths, f).val = << >>
    /\ AtValidation /\ HasRejectedPath =>
          /\ ~validate_attachment_paths(environ.attachment_paths, fs).ok
          /\ validate_attachment_paths(environ.attachment_paths, fs).val = << >>
    /\ pc = "exit" /\ HasRejectedPath =>
          ValidationFailed /\ config = EmptyConfig
    /\ JustValidated =>
          /\ ~HasRejectedPath
          /\ PathsOf(environ.attachment_paths) =
                { config.attachment_paths[i] : i \in 1..Len(config.attachment_paths) }

C23_Witness ==
    /\ ValidationFailed
    /\ environ.attachment_paths = JoinComma(<< PathA, PathAbs >>)
    /\ fs[PathA] = "ok" /\ fs[PathAbs] = "ok"
    /\ exc.msg = "Invalid file path - potential security risk"
    /\ config.attachment_paths = << >>

(***************************************************************************)
(* C24: after a successful create, a missing output-file path or           *)
(* step-summary path in the environment, or a failed write to either, does *)
(* not turn the run into a failure: main still ends with exit code 0 and   *)
(* only a warning is logged.                                                *)
(***************************************************************************)
OutputSteps == { "set_output_key", "set_output_url", "step_summary", "exit" }

\* how many of the three writes main has gone through
OutputStepsDone ==
    CASE pc = "set_output_url" -> 1
      [] pc = "step_summary" -> 2
      [] pc = "exit" -> 3
      [] OTHER -> 0

\* the writes that were skipped (no path) or failed
SkippedWrites == OutputStepsDone - Len(outputFile) - Len(summaryFile)

LoggedAsError(a) == a.result \in { "error", "Jira error" }

LoggedAsWarning(a) == a.result \in { "file not found", "not readable" }

\* the warning and error lines logged before main writes the outputs
WarningsBeforeOutputs ==
    Len(SelectSeq(attempts, LoggedAsWarning))
    + (IF failed_attachments # << >> THEN 1 ELSE 0)
    + (IF CallFailed("user") THEN 1 ELSE 0)

ErrorsBeforeOutputs == Len(SelectSeq(attempts, LoggedAsError))

C24_OutputFailuresAreWarnings ==
    pc \in OutputSteps /\ CallSucceeded("create_issue") =>
       /\ exc = NoError
       /\ handler = ""
       /\ exitCode = (IF pc = "exit" THEN 0 ELSE -1)
       /\ SkippedWrites \in 0..OutputStepsDone
       /\ log.warnings = WarningsBeforeOutputs + SkippedWrites
       /\ log.errors = ErrorsBeforeOutputs
       /\ pc # "exit" => ENABLED Next

C24_Witness ==
    /\ pc = "exit"
    /\ CallSucceeded("create_issue")
    /\ outputFile = << >>
    /\ summaryFile = << >>
    /\ exitCode = 0
    /\ log = [ warnings |-> 3, errors |-> 0 ]

(***************************************************************************)
(* C25: the remote operations of one run occur only in the order Connect   *)
(* (the client construction and its server-information liveness check),    *)
(* then the assignee lookup (if any), then the parent lookup (if any),     *)
(* then create, then the attachment uploads: create is never submitted     *)
(* unless Connect succeeded, and no upload is attempted unless create      *)
(* succeeded.                                                               *)
(***************************************************************************)
OpRank(op) ==
    CASE op = "JIRA" -> 1
      [] op = "server_info" -> 2
      [] op = "user" -> 3
      [] op = "issue" -> 4
      [] op = "create_issue" -> 5
      [] op = "add_attachment" -> 6

\* the call at position i ended well
CallOk(i) == calls[i].result.kind = "ok"

C25_RemoteOperationOrder ==
    /\ \A i \in 1..Len(calls) : calls[i].op \in RemoteOps
    /\ \A i \in 1..Len(calls) : \A j \in (i + 1)..Len(calls) :
          \/ OpRank(calls[i].op) < OpRank(calls[j].op)
          \/ calls[i].op = "add_attachment" /\ calls[j].op = "add_attachment"
    /\ \A j \in 1..Len(calls) :
          OpRank(calls[j].op) >= 2 => calls[1].op = "JIRA" /\ CallOk(1)
    /\ \A j \in 1..Len(calls) :
          OpRank(calls[j].op) >= 3 => calls[2].op = "server_info" /\ CallOk(2)
    /\ \A j \in 1..Len(calls) :
          calls[j].op = "add_attachment" =>
             \E i \in 1..(j - 1) : calls[i].op = "create_issue" /\ CallOk(i)
    /\ \A j \in 1..Len(calls) :
          calls[j].op = "create_issue" =>
             \A i \in 1..(j - 1) :
                calls[i].op = "issue" => CallOk(i)

C25_Witness ==
    /\ Len(calls) = 7
    /\ [ i \in 1..7 |-> calls[i].op ] =
          << "JIRA", "server_info", "user", "issue", "create_issue",
             "add_attachment", "add_attachment" >>
    /\ pc = "exit"

(***************************************************************************)
(* C26: the validated configuration is read-only after construction:       *)
(* masking the token for logging, the assignee and parent lookups, payload *)
(* building, log sanitizing of the payload, create and attachment handling *)
(* leave every field of the configuration, the API token and the           *)
(* description included, at the value the validator produced.               *)
(***************************************************************************)
\* config holds what the validators return for the inputs of this run
HoldsValidatedValues(c, e) ==
    /\ c.jira_server = RStripSlash(Strip(e.jira_server))
    /\ c.jira_username = Strip(e.jira_username)
    /\ c.jira_api_token = Strip(e.jira_api_token)
    /\ c.project_key = Upper(Strip(e.project_key))
    /\ c.issue_type = Strip(e.issue_type)
    /\ c.issue_summary = Strip(e.issue_summary)
    /\ c.issue_description = Strip(e.issue_description)
    /\ c.issue_priority = Strip(e.issue_priority)
    /\ c.parent_issue_key = Upper(Strip(e.parent_issue_key))
    /\ c.assignee = Strip(e.assignee)
    /\ IsTokenList(c.labels, e.issue_labels)
    /\ IsTokenList(c.attachment_paths, e.attachment_paths)

C26_ConfigReadOnly ==
    /\ JustValidated => config = validate_and_prepare_config(environ, fs).val
    /\ Validated => HoldsValidatedValues(config, environ)
    /\ ~Validated => config = EmptyConfig

C26_Witness ==
    /\ pc = "exit"
    /\ exitCode = 0
    /\ LogConfig(config).jira_api_token # config.jira_api_token
    /\ config.jira_api_token = environ.jira_api_token
    /\ Len(config.issue_description) > LogDescriptionLen
    /\ _sanitize_for_log(submitted[1]).description # submitted[1].description
    /\ submitted[1].description = config.issue_description
    /\ config.issue_description = environ.issue_description

(***************************************************************************)
(* C27: if the remote create succeeds in a run, that run always ends with  *)
(* exit code 0 and reports the key of the created issue: no later step     *)
(* (attachment handling, writing the outputs, writing the step summary)    *)
(* can turn the run into an exit-1 failure, so a run that exits with 1 has *)
(* never created an issue.                                                  *)
(***************************************************************************)
\* the steps main and create_issue take after jira.create_issue has returned
StepsAfterCreate ==
    { "attach", "uploading", "set_output_key", "set_output_url", "step_summary" }

WasAttached(a) == a.result = "attached"

WasNotAttached(a) == a.result # "attached"

\* attachment handling is over: create_issue has returned the key
AttachmentsDone == pc \in OutputSteps /\ CallSucceeded("create_issue")

C28_EachPathCountedOnce ==
    /\ successful_attachments = Len(SelectSeq(attempts, WasAttached))
    /\ Len(failed_attachments) = Len(SelectSeq(attempts, WasNotAttached))
    /\ \A i \in 1..Len(failed_attachments) :
          /\ failed_attachments[i].path = SelectSeq(attempts, WasNotAttached)[i].path
          /\ failed_attachments[i].why = SelectSeq(attempts, WasNotAttached)[i].result
    /\ Len(attempts) = idx - 1
    /\ Len(attempts) <= Len(config.attachment_paths)
    /\ \A i \in 1..Len(attempts) : attempts[i].path = config.attachment_paths[i]
    /\ successful_attachments + Len(failed_attachments) = Len(attempts)
    /\ AttachmentsDone =>
          successful_attachments + Len(failed_attachments) = Len(config.attachment_paths)

C28_Witness ==
    /\ AttachmentsDone
    /\ config.attachment_paths = << PathA, PathA >>
    /\ successful_attachments = 1
    /\ Len(failed_attachments) = 1
    /\ failed_attachments[1].path = PathA

(***************************************************************************)
(* C29: the placeholder rule of validate_token never decides the outcome:  *)
(* every token that is, ignoring case, one of password, token, secret and  *)
(* key is already rejected by the minimum-length rule, so the "appears to  *)
(* be a placeholder" error is unreachable and every token that passes the  *)
(* length rule is accepted.                                                 *)
(***************************************************************************)
PlaceholderMsg == "API token appears to be a placeholder"

TooShortMsg == "API token appears to be too short (minimum 20 characters)"

IsPlaceholder(t) == Lower(Strip(t)) \in PlaceholderTokens

C29_PlaceholderRuleUnreachable ==
    /\ \A p \in PlaceholderTokens : Len(p) < MinTokenLen
    /\ AtValidation =>
          /\ validate_token(environ.jira_api_token).err # PlaceholderMsg
          /\ IsPlaceholder(environ.jira_api_token) =>
                validate_token(environ.jira_api_token) = Fail(TooShortMsg)
          /\ validate_token(environ.jira_api_token).ok <=>
                Len(Strip(environ.jira_api_token)) >= MinTokenLen
    /\ exc.msg # PlaceholderMsg

C29_Witness ==
    /\ ValidationFailed
    /\ IsPlaceholder(environ.jira_api_token)
    /\ exc.msg = TooShortMsg

(***************************************************************************)
(* C30: an assignee input that is not empty but holds only whitespace is   *)
(* not taken as an absent assignee: validate_and_prepare_config fails with *)
(* a validation error for it, whereas an empty assignee gives a            *)
(* configuration with no assignee and a whitespace-only parent issue key   *)
(* gives an absent parent key.                                              *)
(***************************************************************************)
WhitespaceOnly(s) == s # << >> /\ Strip(s) = << >>

C30_BlankAssigneeRejected ==
    /\ AtValidation /\ WhitespaceOnly(environ.assignee) =>
          validate_username(environ.assignee) = Fail("Username cannot be empty")
    /\ AtValidation /\ WhitespaceOnly(environ.parent_issue_key) =>
          validate_parent_issue_key(environ.parent_issue_key) = Ok(<< >>)
    /\ JustValidated =>
          /\ ~WhitespaceOnly(environ.assignee)
          /\ environ.assignee = << >> <=> config.assignee = << >>
          /\ WhitespaceOnly(environ.parent_issue_key) => config.parent_issue_key = << >>
    /\ pc = "exit" /\ WhitespaceOnly(environ.assignee) =>
          /\ ValidationFailed
          /\ config = EmptyConfig
          /\ calls = << >>
          /\ InvalidFields(ValidatorResults(environ, fs)) = { 12 } =>
                exc.msg = "Username cannot be empty"

C30_Witness ==
    /\ ValidationFailed
    /\ WhitespaceOnly(environ.assignee)
    /\ WhitespaceOnly(environ.parent_issue_key) \/ environ.parent_issue_key = << >>
    /\ exc.msg = "Username cannot be empty"

====
